---------------------------- MODULE Spec2Model ----------------------------
(***************************************************************************)
(* A model of the storage and transaction core of centauriDB: the lock     *)
(* table, the per-transaction concurrency manager, the log manager, the    *)
(* buffers and the transaction / recovery manager.                         *)
(*                                                                         *)
(* The module holds several specifications, one per layer, so that each    *)
(* layer is driven through its own public interface:                       *)
(*   SpecLT   callers of LockTable.SLock / XLock / Unlock                  *)
(*   SpecCM   ConcurrencyManagers that share one LockTable                 *)
(*   SpecPT   ConcurrencyManagers over the pointer-keyed LockTable         *)
(*   SpecBM   callers of BufferManager.Pin / Unpin                         *)
(*   SpecBuf  writers over the buffer pool, the log and the commit of the  *)
(*            recovery manager                                             *)
(*   SpecLog  callers of LogManager.Append / Iterator and its iterator     *)
(*   SpecLay  schemas and the Layout NewLayout computes for them           *)
(*   SpecBT   clients of BTreeIndex on a transaction                       *)
(*   SpecTS   callers of a TableScan over the slots of a table file        *)
(*   Spec     Transactions as NewTransaction builds them, with the end of  *)
(*            the process, its restart and the start-up of NewCentauriDB   *)
(* Variables a specification does not use keep their initial value.        *)
(***************************************************************************)
EXTENDS Integers, Sequences, FiniteSets, TLC

(***************************************************************************)
(* Bounds of the model.                                                    *)
(***************************************************************************)
\* number of distinct blocks the callers lock
NumBlocks == 2
\* callers stop asking for shared locks on a block at this count
MaxShared == 3
\* number of concurrency managers sharing the lock table in SpecCM
NumCM == 2
\* the pointer-keyed lock table takes no request once it has this many entries
MaxEntries == 4
\* number of frames of the buffer pool
NumBuffers == 2
\* number of transactions that write through the buffers in SpecBuf
NumTx == 2
\* values a writer stores in a page are 1..MaxVal (a fresh page holds 0)
MaxVal == 1
\* a writer makes at most this many SetInt calls
MaxWrites == 1
\* no record is appended once the log holds this many
MaxLSN == 4
\* a transaction holds at most this many pins at a time
MaxPins == 2
\* number of records the callers of SpecLog append
MaxAppends == 3
\* number of records a caller of SpecLog takes from its iterator
MaxYield == 5
\* size in bytes of a block of the model's files (the server uses 400)
BlockSize == 40
\* length of the name of the data file
FileNameLen == 4
\* slot size of the layout of the scanned table: the flag and one integer
\* field of 8 bytes each, so that a block holds two slots
ScanSlotSize == 16
\* a scan's Insert adds no block to a table file of this many blocks
MaxTableBlocks == 3

Blocks == 1..NumBlocks
PoolBlocks == 1..(NumBlocks + 1)
CMs == 1..NumCM
Buffers == 1..NumBuffers
Txs == 1..NumTx

VARIABLES
    locks,      \* LockTable.locks : map BlockID -> int (absent = no entry)
    last,       \* the last finished call (on the lock table or a manager): its outcome
    cmLocks,    \* ConcurrencyManager.locks of every manager: block -> "S" | "X"
    cmPc,       \* where every manager's current call stands
    cmArg,      \* the block of a manager's XLock call in progress
    cmRel,      \* the blocks a manager's Release has still to unlock
    lm,         \* LogManager: logpage, currentBlock, latestLSN, lastSavedLSN
    logFile,    \* the log file on disk: a sequence of log blocks
    disk,       \* the data file on disk: block -> the integer its page holds
    bufs,       \* the buffer pool: frame -> Buffer
    numAvailable, \* BufferManager.numAvailable
    wal,        \* what the last write of a data page found in the log on disk
    wr,         \* the writers of SpecBuf: where each stands
    txs,        \* the Transaction objects of the running process, by number
    nextTxNum,  \* the counter of transaction numbers
    proc,       \* "up", or "down" after a panic or a crash
    db,         \* the database directory and what NewCentauriDB made of it
    lay,        \* the Layout NewLayout has built last, and the schema it was given
    bt,         \* the B-tree index of SpecBT: its files, its transaction, its calls
    ts          \* the TableScan of SpecTS: the table file and the scan's position

cmVars == <<cmLocks, cmPc, cmArg, cmRel>>
stVars == <<lm, logFile, disk, bufs, numAvailable, wal>>
txVars == <<txs, nextTxNum, proc>>
xVars == <<db, lay, bt, ts>>
vars == <<locks, last, cmLocks, cmPc, cmArg, cmRel, lm, logFile, disk, bufs, numAvailable,
          wal, wr,
          txs, nextTxNum, proc, db, lay, bt, ts>>

(***************************************************************************)
(* Go maps as functions with a finite domain.                              *)
(***************************************************************************)
EmptyMap == [x \in {} |-> 0]
MapPut(m, k, v) == [x \in (DOMAIN m) \cup {k} |-> IF x = k THEN v ELSE m[x]]
MapDelete(m, k) == [x \in (DOMAIN m) \ {k} |-> m[x]]

(***************************************************************************)
(* LockTable (internal/app/tx/lockTable.go).  Every method runs under the  *)
(* table's mutex, so each is one atomic step.  The two lock methods return *)
(* the timeout error at once when the lock cannot be granted.              *)
(***************************************************************************)
getLockVal(lk, b) == IF b \in DOMAIN lk THEN lk[b] ELSE 0

hasXLock(lk, b) == getLockVal(lk, b) < 0

\* what XLock tests before it grants: any lock at all on the block
XLockBlocked(lk, b) == getLockVal(lk, b) # 0

SLock_NoCheck(lk, b) ==
    [err |-> FALSE, locks |-> MapPut(lk, b, getLockVal(lk, b) + 1)]

LockTableSLock(lk, b) ==
    IF hasXLock(lk, b)
    THEN [err |-> TRUE, locks |-> lk]
    ELSE [err |-> FALSE, locks |-> MapPut(lk, b, getLockVal(lk, b) + 1)]

LockTableXLock(lk, b) ==
    IF XLockBlocked(lk, b)
    THEN [err |-> TRUE, locks |-> lk]
    ELSE [err |-> FALSE, locks |-> MapPut(lk, b, -1)]

Unlock_Remove(lk, b) ==
    IF getLockVal(lk, b) # 0 THEN MapDelete(lk, b) ELSE lk

Unlock_Decrement(lk, b) ==
    LET val == getLockVal(lk, b)
    IN  IF val > 0 THEN MapPut(lk, b, val - 1)
        ELSE IF val # 0 THEN MapDelete(lk, b)
        ELSE lk

LockTableUnlock(lk, b) ==
    LET val == getLockVal(lk, b)
    IN  IF val > 1 THEN MapPut(lk, b, val - 1)
        ELSE IF val # 0 THEN MapDelete(lk, b)
        ELSE lk

\* the record of a finished call: who made it (0: a direct caller of the lock
\* table), the method, the block and whether it returned the timeout error
\* and, for a Release, the blocks the manager's map held and, for a Commit,
\* the pin list the transaction had
NoCall ==
    [who |-> 0, op |-> "none", blk |-> 0, err |-> FALSE, rel |-> {}, pins |-> <<>>]

Call(who, op, b, err) ==
    [who |-> who, op |-> op, blk |-> b, err |-> err, rel |-> {}, pins |-> <<>>]

(***************************************************************************)
(* Callers of the lock table (SpecLT): any caller may issue any of the     *)
(* three calls on any block at any time, as the LockTable tests do.        *)
(***************************************************************************)
LT_SLock(b) ==
    /\ getLockVal(locks, b) < MaxShared
    /\ LET r == LockTableSLock(locks, b)
       IN  /\ locks' = r.locks
           /\ last' = Call(0, "SLock", b, r.err)
    /\ UNCHANGED <<cmVars, stVars, wr, txVars>>
    /\ UNCHANGED xVars

LT_XLock(b) ==
    /\ LET r == LockTableXLock(locks, b)
       IN  /\ locks' = r.locks
           /\ last' = Call(0, "XLock", b, r.err)
    /\ UNCHANGED <<cmVars, stVars, wr, txVars>>
    /\ UNCHANGED xVars

LT_Unlock(b) ==
    /\ LET l2 == LockTableUnlock(locks, b)
       IN  /\ locks' = l2
           /\ last' = Call(0, "Unlock", b, FALSE)
    /\ UNCHANGED <<cmVars, stVars, wr, txVars>>
    /\ UNCHANGED xVars

(***************************************************************************)
(* Claims about the lock table alone (SpecLT).                             *)
(***************************************************************************)
\* C7: every entry of the lock table is -1 (exclusive) or a count n >= 1 of
\* shared holders; a free block has no entry, never an entry 0 or below -1.
C7_LockEntriesValid ==
    \A b \in DOMAIN locks : locks[b] = -1 \/ locks[b] >= 1

\* an Unlock of the last holder has removed a block's entry while another
\* block is held exclusively
C7_Witness ==
    /\ last.op = "Unlock" /\ last.blk \notin DOMAIN locks
    /\ \E b \in DOMAIN locks : locks[b] = -1

\* C10: an SLock on an exclusively locked block and an XLock on a block that
\* has a shared lock return the timeout error and leave the lock table as it
\* was before the call.
C10_ConflictTimesOut ==
    [][\A b \in Blocks :
          /\ (LT_SLock(b) /\ getLockVal(locks, b) = -1) => (last'.err /\ locks' = locks)
          /\ (LT_XLock(b) /\ getLockVal(locks, b) >= 1) => (last'.err /\ locks' = locks)
      ]_vars

\* an XLock has just been refused on a block that has two shared holders
C10_Witness ==
    /\ last.op = "XLock" /\ last.err
    /\ getLockVal(locks, last.blk) = 2

\* C24: each successful SLock raises the shared count of its block by one and
\* each Unlock lowers it by one, whatever the order of the callers' calls, so
\* k SLocks on a free block leave the count k and k Unlocks then leave the
\* block free: an Unlock at a count above 1 decrements the count by exactly
\* one, and at any other lock it removes the entry (and broadcasts on the
\* condition variable, on which no caller of this table ever waits).  No call
\* touches the entry of another block.
C24_SharedCountFollowsCalls ==
    [][\A b \in Blocks :
          LET val == getLockVal(locks, b)
          IN  /\ (LT_SLock(b) /\ ~last'.err) =>
                    /\ val >= 0
                    /\ locks' = MapPut(locks, b, val + 1)
              /\ LT_Unlock(b) =>
                    IF val > 1 THEN locks' = MapPut(locks, b, val - 1)
                    ELSE /\ b \notin DOMAIN locks'
                         /\ \A c \in Blocks \ {b} :
                               getLockVal(locks', c) = getLockVal(locks, c)
      ]_vars

\* an Unlock has lowered the count of a block that had MaxShared shared
\* locks, while the other block is free
C24_Witness ==
    /\ last.op = "Unlock"
    /\ getLockVal(locks, last.blk) = MaxShared - 1
    /\ DOMAIN locks = {last.blk}

\* C11: an SLock request on an exclusively locked block waits: it is not
\* refused while the wait has not lasted MaxWait, so that an unlock of the
\* holder within that time lets it be granted.  A call that starts and
\* returns in one step has waited for no time at all.
C11_SLockWaits ==
    [][\A b \in Blocks :
          (LT_SLock(b) /\ hasXLock(locks, b)) => ~last'.err]_vars

(***************************************************************************)
(* ConcurrencyManager (unnamed/part_009).  A manager keeps the locks it    *)
(* holds in its own map and asks the lock table only for what the map      *)
(* lacks.  Its methods run under the manager's own mutex; the calls they   *)
(* make on the lock table are separate critical sections of the table's    *)
(* mutex, so other managers may run between them.                          *)
(***************************************************************************)
cmHasXLock(cache, b) == b \in DOMAIN cache /\ cache[b] = "X"

\* the blocks Release unlocks: every block of the manager's map
ReleaseTargets_OnlyExclusive(cache) == {b \in DOMAIN cache : cache[b] = "X"}

ReleaseTargets(cache) == DOMAIN cache

\* ConcurrencyManager.SLock
CM_SLock(c, b) ==
    /\ cmPc[c] = "idle"
    /\ IF b \in DOMAIN cmLocks[c]
       THEN /\ last' = Call(c, "SLock", b, FALSE)
            /\ UNCHANGED <<locks, cmLocks>>
       ELSE LET r == LockTableSLock(locks, b)
            IN  /\ locks' = r.locks
                /\ cmLocks' = IF r.err THEN cmLocks
                              ELSE [cmLocks EXCEPT ![c] = MapPut(@, b, "S")]
                /\ last' = Call(c, "SLock", b, r.err)
    /\ UNCHANGED <<cmPc, cmArg, cmRel, stVars, wr, txVars>>
    /\ UNCHANGED xVars

\* ConcurrencyManager.XLock up to and including its first call on the lock
\* table: the shared lock when the manager holds none, the upgrade otherwise
CM_XLock(c, b) ==
    /\ cmPc[c] = "idle"
    /\ IF cmHasXLock(cmLocks[c], b)
       THEN /\ last' = Call(c, "XLock", b, FALSE)
            /\ UNCHANGED <<locks, cmLocks, cmPc, cmArg>>
       ELSE IF b \notin DOMAIN cmLocks[c]
       THEN LET r == LockTableSLock(locks, b)
            IN  /\ locks' = r.locks
                /\ IF r.err
                   THEN /\ last' = Call(c, "XLock", b, TRUE)
                        /\ UNCHANGED <<cmLocks, cmPc, cmArg>>
                   ELSE /\ cmLocks' = [cmLocks EXCEPT ![c] = MapPut(@, b, "S")]
                        /\ cmPc' = [cmPc EXCEPT ![c] = "upgrade"]
                        /\ cmArg' = [cmArg EXCEPT ![c] = b]
                        /\ UNCHANGED last
       ELSE LET r == LockTableXLock(locks, b)
            IN  /\ locks' = r.locks
                /\ cmLocks' = IF r.err THEN cmLocks
                              ELSE [cmLocks EXCEPT ![c] = MapPut(@, b, "X")]
                /\ last' = Call(c, "XLock", b, r.err)
                /\ UNCHANGED <<cmPc, cmArg>>
    /\ UNCHANGED <<cmRel, stVars, wr, txVars>>
    /\ UNCHANGED xVars

\* ConcurrencyManager.XLock, the upgrade that follows its own shared lock
CM_XLockUpgrade(c) ==
    /\ cmPc[c] = "upgrade"
    /\ LET b == cmArg[c]
           r == LockTableXLock(locks, b)
       IN  /\ locks' = r.locks
           /\ cmLocks' = IF r.err THEN cmLocks
                         ELSE [cmLocks EXCEPT ![c] = MapPut(@, b, "X")]
           /\ last' = Call(c, "XLock", b, r.err)
    /\ cmPc' = [cmPc EXCEPT ![c] = "idle"]
    /\ cmArg' = [cmArg EXCEPT ![c] = 0]
    /\ UNCHANGED <<cmRel, stVars, wr, txVars>>
    /\ UNCHANGED xVars

\* ConcurrencyManager.Release: entry, one Unlock per block of the map (in the
\* map's iteration order, which Go leaves open), then the map is cleared
CM_Release(c) ==
    /\ cmPc[c] = "idle"
    /\ cmPc' = [cmPc EXCEPT ![c] = "releasing"]
    /\ cmRel' = [cmRel EXCEPT ![c] = ReleaseTargets(cmLocks[c])]
    /\ UNCHANGED <<locks, last, cmLocks, cmArg, stVars, wr, txVars>>
    /\ UNCHANGED xVars

CM_ReleaseUnlock(c) ==
    /\ cmPc[c] = "releasing"
    /\ \E b \in cmRel[c] :
          /\ locks' = LockTableUnlock(locks, b)
          /\ cmRel' = [cmRel EXCEPT ![c] = @ \ {b}]
    /\ UNCHANGED <<last, cmLocks, cmPc, cmArg, stVars, wr, txVars>>
    /\ UNCHANGED xVars

CM_ReleaseEnd(c) ==
    /\ cmPc[c] = "releasing"
    /\ cmRel[c] = {}
    /\ last' = [Call(c, "Release", 0, FALSE) EXCEPT !.rel = DOMAIN cmLocks[c]]
    /\ cmLocks' = [cmLocks EXCEPT ![c] = EmptyMap]
    /\ cmPc' = [cmPc EXCEPT ![c] = "idle"]
    /\ UNCHANGED <<locks, cmArg, cmRel, stVars, wr, txVars>>
    /\ UNCHANGED xVars

(***************************************************************************)
(* Claims about concurrency managers sharing the lock table (SpecCM).      *)
(***************************************************************************)
\* the upgrade call of ConcurrencyManager.XLock on block b: the manager holds
\* a shared lock on b and asks the lock table for the exclusive lock
UpgradeStep(c, b) ==
    \/ CM_XLockUpgrade(c) /\ cmArg[c] = b
    \/ CM_XLock(c, b) /\ b \in DOMAIN cmLocks[c] /\ cmLocks[c][b] = "S"

\* C6: a manager that is the only holder of a shared lock on a block and
\* requests the exclusive lock is granted it, and the block's value becomes -1.
C6_SoleHolderUpgradeGranted ==
    [][\A c \in CMs, b \in Blocks :
          (UpgradeStep(c, b) /\ getLockVal(locks, b) = 1) =>
              (~last'.err /\ getLockVal(locks', b) = -1)
      ]_vars

\* manager c counts among the holders of block b in the lock table
HeldBy(c, b) ==
    /\ b \in DOMAIN cmLocks[c]
    /\ ~(cmPc[c] = "releasing" /\ b \notin cmRel[c])

\* what the lock table must hold for block b, given what the managers hold
ExpectedLockVal(b) ==
    IF \E c \in CMs : HeldBy(c, b) /\ cmLocks[c][b] = "X"
    THEN -1
    ELSE Cardinality({c \in CMs : HeldBy(c, b)})

\* a lock request of manager c on block b: a whole SLock, or an XLock up to
\* its return
LockRequestReturns(c, b) ==
    \/ CM_SLock(c, b)
    \/ CM_XLock(c, b) /\ cmPc'[c] = "idle"
    \/ CM_XLockUpgrade(c) /\ cmArg[c] = b

\* C35: every lock request returns, granted or with the timeout error, in a
\* bounded number of steps of its own; when two managers hold a shared lock
\* on a block and ask for the exclusive lock, a request made while the other
\* still holds its lock ends with the timeout error, and once the other
\* manager has released its locks the request for the exclusive lock is
\* granted.
C35_UpgradeAfterPeerRollback ==
    [][\A c \in CMs, b \in Blocks :
          /\ CM_XLockUpgrade(c) => cmPc'[c] = "idle"
          /\ LockRequestReturns(c, b) =>
                (last'.who = c /\ last'.blk = b
                 /\ (last'.err \/ b \in DOMAIN cmLocks'[c]))
          /\ (UpgradeStep(c, b) /\ \E d \in CMs \ {c} : HeldBy(d, b)) => last'.err
          /\ (UpgradeStep(c, b) /\ \A d \in CMs \ {c} : ~HeldBy(d, b)) =>
                (~last'.err /\ cmHasXLock(cmLocks'[c], b))
      ]_vars

NewPtr(lk, b) == <<b, Cardinality(DOMAIN lk) + 1>>

\* LockTable.SLock(p) of part_005
PtrTableSLock(lk, p) ==
    IF hasXLock(lk, p)
    THEN [err |-> TRUE, locks |-> lk]
    ELSE [err |-> FALSE, locks |-> MapPut(lk, p, getLockVal(lk, p) + 1)]

\* LockTable.XLock(p) of part_005: it waits while hasAnyLock(p)
PtrTableXLock(lk, p) ==
    IF getLockVal(lk, p) # 0
    THEN [err |-> TRUE, locks |-> lk]
    ELSE [err |-> FALSE, locks |-> MapPut(lk, p, -1)]

\* ConcurrencyManager.SLock over the pointer-keyed table
PT_SLock(c, b) ==
    /\ Cardinality(DOMAIN locks) < MaxEntries
    /\ IF b \in DOMAIN cmLocks[c]
       THEN /\ last' = Call(c, "SLock", b, FALSE)
            /\ UNCHANGED <<locks, cmLocks>>
       ELSE LET r == PtrTableSLock(locks, NewPtr(locks, b))
            IN  /\ locks' = r.locks
                /\ cmLocks' = IF r.err THEN cmLocks
                              ELSE [cmLocks EXCEPT ![c] = MapPut(@, b, "S")]
                /\ last' = Call(c, "SLock", b, r.err)
    /\ UNCHANGED <<cmPc, cmArg, cmRel, stVars, wr, txVars>>
    /\ UNCHANGED xVars

\* ConcurrencyManager.XLock over the pointer-keyed table: both calls of one
\* XLock pass the address of the same parameter
PT_XLock(c, b) ==
    /\ Cardinality(DOMAIN locks) < MaxEntries
    /\ IF cmHasXLock(cmLocks[c], b)
       THEN /\ last' = Call(c, "XLock", b, FALSE)
            /\ UNCHANGED <<locks, cmLocks>>
       ELSE LET p == NewPtr(locks, b)
                r1 == IF b \in DOMAIN cmLocks[c]
                      THEN [err |-> FALSE, locks |-> locks]
                      ELSE PtrTableSLock(locks, p)
                r2 == IF r1.err THEN r1 ELSE PtrTableXLock(r1.locks, p)
            IN  /\ locks' = r2.locks
                /\ cmLocks' = [cmLocks EXCEPT ![c] =
                                  IF r1.err THEN @
                                  ELSE IF r2.err THEN MapPut(@, b, "S")
                                  ELSE MapPut(@, b, "X")]
                /\ last' = Call(c, "XLock", b, r2.err)
    /\ UNCHANGED <<cmPc, cmArg, cmRel, stVars, wr, txVars>>
    /\ UNCHANGED xVars

\* the Unlock calls of ConcurrencyManager.Release: each passes the address of
\* the loop variable
RECURSIVE PtrRelease(_, _)
PtrRelease(lk, blocks) ==
    IF blocks = {} THEN lk
    ELSE LET b == CHOOSE x \in blocks : TRUE
         IN  PtrRelease(LockTableUnlock(lk, NewPtr(lk, b)), blocks \ {b})

\* ConcurrencyManager.Release over the pointer-keyed table
PT_Release(c) ==
    /\ cmLocks[c] # EmptyMap
    /\ locks' = PtrRelease(locks, DOMAIN cmLocks[c])
    /\ cmLocks' = [cmLocks EXCEPT ![c] = EmptyMap]
    /\ last' = Call(c, "Release", 0, FALSE)
    /\ UNCHANGED <<cmPc, cmArg, cmRel, stVars, wr, txVars>>
    /\ UNCHANGED xVars

\* C12: locks are identified by the value (file name, block number): while a
\* transaction holds the exclusive lock on a block, a lock request of another
\* transaction on a BlockID of the same value conflicts with it, and the
\* holder's release frees the entry its request created.
C12_LocksByValue ==
    [][\A c \in CMs, b \in Blocks :
          /\ \A d \in CMs \ {c} :
                ((PT_SLock(d, b) \/ PT_XLock(d, b)) /\ cmHasXLock(cmLocks[c], b))
                   => last'.err
          /\ (PT_Release(c) /\ b \in DOMAIN cmLocks[c]) =>
                ((\E p \in DOMAIN locks' : p[1] = b) =>
                    \E e \in CMs \ {c} : b \in DOMAIN cmLocks[e])
      ]_vars

\* the keys of the table that stand for block b, and the sum of the values
\* under a set of keys
EntriesOf(lk, b) == {p \in DOMAIN lk : p[1] = b}

RECURSIVE SumOfVals(_, _)
SumOfVals(lk, ps) ==
    IF ps = {} THEN 0
    ELSE LET p == CHOOSE x \in ps : TRUE
         IN  lk[p] + SumOfVals(lk, ps \ {p})

\* the managers whose map records a lock of the given mode on block b
Holders(b, mode) == {c \in CMs : b \in DOMAIN cmLocks[c] /\ cmLocks[c][b] = mode}

\* C34: the maps of the managers agree with the lock table: for every block
\* the table records the exclusive lock (-1) exactly when the map of some
\* manager records "X" for it, and otherwise what it records for the block is
\* the number of managers whose map records "S" for it, nothing when there
\* are none; this between any two calls, failed lock requests included.
C34_CachesAgreeWithTable ==
    \A b \in Blocks :
       /\ (\E p \in EntriesOf(locks, b) : locks[p] = -1) <=> Holders(b, "X") # {}
       /\ Holders(b, "X") = {} =>
             /\ SumOfVals(locks, EntriesOf(locks, b)) = Cardinality(Holders(b, "S"))
             /\ Holders(b, "S") = {} => EntriesOf(locks, b) = {}

(***************************************************************************)
(* Pages and log records.  Page.SetInt / GetInt store a 32-bit integer     *)
(* big-endian; the START, COMMIT, ROLLBACK and CHECKPOINT records are      *)
(* filled with binary.LittleEndian.  A record is kept as the sequence of   *)
(* its 32-bit words, each word as the number Page.GetInt reads from it,    *)
(* together with its length in bytes.                                      *)
(***************************************************************************)
CHECKPOINT == 0
START == 1
COMMIT == 2
ROLLBACK == 3
SETINT == 4
SETSTRING == 5

\* the number Page.GetInt reads from four bytes written by
\* binary.LittleEndian.PutUint32(n)
Swap32(n) ==
    ((n % 256) * 16777216) + (((n \div 256) % 256) * 65536)
      + (((n \div 65536) % 256) * 256) + ((n \div 16777216) % 256)

\* the number Page.GetInt reads from four bytes written by Page.SetInt(n)
BigEndian32(n) == n

\* writeToLogStartRecord / CommitRecord / RollbackRecord / CheckpointRecord
TxRecordBytes(op, txnum) ==
    [words |-> <<Swap32(op), Swap32(txnum)>>, size |-> 8]

\* file.MaxLength
MaxLength(strlen) == 4 + strlen

\* WriteToLogIntRecord: tag, txnum, file name (length, then the name), block
\* number, offset, the value before the write
SetIntRecordBytes(txnum, b, offset, val) ==
    [words |-> <<BigEndian32(SETINT), BigEndian32(txnum), BigEndian32(FileNameLen),
                 BigEndian32(b), BigEndian32(offset), BigEndian32(val)>>,
     size |-> 8 + MaxLength(FileNameLen) + 12]

(***************************************************************************)
(* LogManager (internal/app/log/logIterator.go).  A log page is its        *)
(* boundary and the records from the boundary to the end of the block,     *)
(* newest first.  The operators work on a record s of the storage state:   *)
(* lm, logFile, disk, bufs, wal.                                           *)
(***************************************************************************)
Storage ==
    [lm |-> lm, logFile |-> logFile, disk |-> disk, bufs |-> bufs,
     numAvailable |-> numAvailable, wal |-> wal]

Store(s) ==
    /\ lm' = s.lm
    /\ logFile' = s.logFile
    /\ disk' = s.disk
    /\ bufs' = s.bufs
    /\ numAvailable' = s.numAvailable
    /\ wal' = s.wal

EmptyLogPage == [boundary |-> BlockSize, recs |-> <<>>]

\* LogManager.flush
flush(s) ==
    [s EXCEPT !.logFile[s.lm.currentBlock] = s.lm.logpage,
              !.lm.lastSavedLSN = s.lm.latestLSN]

\* LogManager.appendNewBlock, with the assignment of currentBlock its callers make
appendNewBlock(s) ==
    [s EXCEPT !.logFile = Append(@, EmptyLogPage),
              !.lm.logpage = EmptyLogPage,
              !.lm.currentBlock = Len(s.logFile) + 1]

LogManagerAppend_NoCount(s, rec) ==
    LET bytesneeded == rec.size + 4
        s1 == IF s.lm.logpage.boundary - bytesneeded < 4
              THEN appendNewBlock(flush(s))
              ELSE s
        recpos == s1.lm.logpage.boundary - bytesneeded
    IN  [s1 EXCEPT !.lm.logpage = [boundary |-> recpos, recs |-> <<rec>> \o @.recs],
                   !.lm.latestLSN = IF s1.lm.currentBlock = s.lm.currentBlock
                                    THEN @ + 1 ELSE @]

\* LogManager.Append: the storage after the call (the LSN it returns is the
\* new latestLSN)
LogManagerAppend(s, rec) ==
    LET bytesneeded == rec.size + 4
        s1 == IF s.lm.logpage.boundary - bytesneeded < 4
              THEN appendNewBlock(flush(s))
              ELSE s
        recpos == s1.lm.logpage.boundary - bytesneeded
    IN  [s1 EXCEPT !.lm.logpage = [boundary |-> recpos, recs |-> <<rec>> \o @.recs],
                   !.lm.latestLSN = @ + 1]

\* the test of LogManager.Flush
LogFlushNeeded_Reversed(lsn, lastSavedLSN) == lsn <= lastSavedLSN

LogFlushNeeded(lsn, lastSavedLSN) == lsn >= lastSavedLSN

\* LogManager.Flush
LogManagerFlush(s, lsn) ==
    IF LogFlushNeeded(lsn, s.lm.lastSavedLSN) THEN flush(s) ELSE s

\* NewLogManager on an empty log file
NewLogManager ==
    [logpage |-> EmptyLogPage, currentBlock |-> 1, latestLSN |-> 0, lastSavedLSN |-> 0]

\* the number of records the log file holds on disk; the log starts empty, so
\* the record with LSN n is on disk exactly when this number is at least n
RECURSIVE RecordsIn(_)
RecordsIn(blocks) ==
    IF blocks = <<>> THEN 0
    ELSE Len(Head(blocks).recs) + RecordsIn(Tail(blocks))

\* the number of records in the log, on disk or in the log page
TotalRecords ==
    RecordsIn([logFile EXCEPT ![lm.currentBlock] = lm.logpage])

(***************************************************************************)
(* LogIterator (internal/app/log/logIterator.go).  currentPos is kept as   *)
(* the index of the next record of the page: past the last record is the   *)
(* end of the block.  Block numbers start at 1 here and at 0 in the code.  *)
(***************************************************************************)
NoIterator == [currentBlock |-> 0, page |-> EmptyLogPage, currentPos |-> 1]

\* NewLogIterator: the block is read into the page, the position is its boundary
NewLogIterator(blocks, blk) ==
    [currentBlock |-> blk, page |-> blocks[blk], currentPos |-> 1]

\* LogIterator.HasNext: the position is before the end of the block, or the
\* number of currentBlock is above that of the first block
HasNext(it) ==
    it.currentPos <= Len(it.page.recs) \/ it.currentBlock > 1

\* LogIterator.moveToBlock: the block is read into the page and the position
\* set to its boundary; currentBlock is not assigned
moveToBlock(blocks, it, blk) ==
    [it EXCEPT !.page = blocks[blk], !.currentPos = 1]

\* LogIterator.Next: at the end of the block, moveToBlock to the block before
\* currentBlock; then the record at the position, and the position after it.
\* (Every block but the newest holds a record, so the page moved to has one.)
IteratorNext(blocks, it) ==
    LET it1 == IF it.currentPos > Len(it.page.recs)
               THEN moveToBlock(blocks, it, it.currentBlock - 1)
               ELSE it
    IN  [rec |-> it1.page.recs[it1.currentPos],
         it |-> [it1 EXCEPT !.currentPos = @ + 1]]

(***************************************************************************)
(* Buffer (internal/app/buffer/buffer.go).  block = 0 stands for nil.      *)
(* plsn is not a field of Buffer: it is the LSN of the newest logged       *)
(* modification the page holds (-1: none), kept to state the WAL rule.     *)
(***************************************************************************)
NewBuffer == [block |-> 0, contents |-> 0, pins |-> 0, txnum |-> -1, lsn |-> -1, plsn |-> -1]

\* Buffer.SetModified
SetModified(b, txnum, lsn) ==
    [b EXCEPT !.txnum = txnum, !.lsn = IF lsn >= 0 THEN lsn ELSE @]

IsPinned(b) == b.pins > 0

\* what a write of frame i's page finds: is every logged modification of the
\* page on disk in the log (ok); the page's newest LSN; was the log behind it
\* before the flush (behind)
WalNote(before, after, i) ==
    LET b == before.bufs[i]
    IN  [ok |-> before.wal.ok /\ RecordsIn(after.logFile) >= b.plsn
                              /\ (b.lsn >= 0 => RecordsIn(after.logFile) >= b.lsn),
         lsn |-> b.plsn,
         behind |-> b.plsn > RecordsIn(before.logFile)]

BufferFlush_NoWrite(s, i) ==
    LET b == s.bufs[i]
    IN  IF b.txnum >= 0
        THEN [LogManagerFlush(s, b.lsn) EXCEPT !.bufs[i].txnum = -1]
        ELSE s

\* Buffer.Flush
BufferFlush(s, i) ==
    LET b == s.bufs[i]
    IN  IF b.txnum >= 0
        THEN LET s1 == LogManagerFlush(s, b.lsn)
             IN  [s1 EXCEPT !.disk[b.block] = b.contents,
                            !.bufs[i].txnum = -1,
                            !.wal = WalNote(s, s1, i)]
        ELSE s

AssignToBlock_NoFlush(s, i, blk) ==
    [s EXCEPT !.bufs[i].block = blk,
              !.bufs[i].contents = s.disk[blk],
              !.bufs[i].plsn = -1,
              !.bufs[i].pins = 0]

\* Buffer.AssignToBlock
AssignToBlock(s, i, blk) ==
    LET s1 == BufferFlush(s, i)
    IN  [s1 EXCEPT !.bufs[i].block = blk,
                   !.bufs[i].contents = s1.disk[blk],
                   !.bufs[i].plsn = -1,
                   !.bufs[i].pins = 0]

(***************************************************************************)
(* BufferManager (the buffer package in                                    *)
(* internal/app/optimization/tablePlanner.go).  Every method runs under    *)
(* bm.mu; Pin gives the mutex up only while it sleeps between two tries.   *)
(***************************************************************************)
\* the first frame of a set, in the order of bufferPool
FirstOf(frames) == CHOOSE i \in frames : \A j \in frames : i <= j

findExistingBuffer_None(s, blk) == {}

\* BufferManager.findExistingBuffer, as a set: empty for nil
findExistingBuffer(s, blk) ==
    LET found == {i \in Buffers : s.bufs[i].block = blk}
    IN  IF found = {} THEN {} ELSE {FirstOf(found)}

chooseUnpinnedBuffer_First(s) == {FirstOf(Buffers)}

chooseUnpinnedBuffer_None(s) == {}

\* BufferManager.chooseUnpinnedBuffer, as a set: empty for nil
chooseUnpinnedBuffer(s) ==
    LET free == {i \in Buffers : ~IsPinned(s.bufs[i])}
    IN  IF free = {} THEN {} ELSE {FirstOf(free)}

\* the frame tryToPin returns for block blk, as a set: empty for nil
PinChoices(s, blk) ==
    IF findExistingBuffer(s, blk) # {} THEN findExistingBuffer(s, blk)
    ELSE chooseUnpinnedBuffer(s)

\* BufferManager.tryToPin when it returns frame i
BufferManagerPin(s, blk, i) ==
    LET s1 == IF s.bufs[i].block = blk THEN s ELSE AssignToBlock(s, i, blk)
        s2 == IF IsPinned(s1.bufs[i]) THEN s1
              ELSE [s1 EXCEPT !.numAvailable = @ - 1]
    IN  [s2 EXCEPT !.bufs[i].pins = @ + 1]

BufferManagerUnpin_NoCount(s, i) == [s EXCEPT !.bufs[i].pins = @ - 1]

\* BufferManager.Unpin
BufferManagerUnpin(s, i) ==
    LET s1 == [s EXCEPT !.bufs[i].pins = @ - 1]
    IN  IF IsPinned(s1.bufs[i]) THEN s1
        ELSE [s1 EXCEPT !.numAvailable = @ + 1]

\* BufferManager.Available
Available == numAvailable

RECURSIVE FlushAllFrom_Every(_, _, _)
FlushAllFrom_Every(s, txnum, i) ==
    IF i > NumBuffers THEN s
    ELSE FlushAllFrom_Every(BufferFlush(s, i), txnum, i + 1)

\* BufferManager.FlushAll
RECURSIVE FlushAllFrom(_, _, _)
FlushAllFrom(s, txnum, i) ==
    IF i > NumBuffers THEN s
    ELSE FlushAllFrom(IF s.bufs[i].txnum = txnum THEN BufferFlush(s, i) ELSE s,
                      txnum, i + 1)

FlushAll(s, txnum) == FlushAllFrom(s, txnum, 1)

(***************************************************************************)
(* Callers of the buffer manager (SpecBM): goroutines that pin and unpin   *)
(* blocks, as the BufferManager tests do.  A caller's record is kept in    *)
(* wr: pc is "new" between calls and "waiting" inside the loop of Pin, blk *)
(* is the block asked for, pinned the frames it holds.  freed is not part  *)
(* of the program: it notes that a frame's pin count has come down to 0    *)
(* while the caller has been waiting.  A Pin that returns from the loop is  *)
(* recorded in last as "PinWaited".                                        *)
(***************************************************************************)
\* the callers after a call of t that took the storage from s to s1; w is
\* the record of t
AfterCall(t, w, s, s1) ==
    [u \in Txs |->
        IF u = t THEN w
        ELSE IF wr[u].pc = "waiting"
                /\ \E i \in Buffers : IsPinned(s.bufs[i]) /\ ~IsPinned(s1.bufs[i])
        THEN [wr[u] EXCEPT !.freed = TRUE]
        ELSE wr[u]]

\* BufferManager.Pin up to its first tryToPin: the frame, or the start of
\* the wait
P_Pin(t, blk) ==
    /\ wr[t].pc = "new"
    /\ \A i \in wr[t].pinned : bufs[i].block # blk
    /\ IF PinChoices(Storage, blk) = {}
       THEN /\ wr' = [wr EXCEPT ![t].pc = "waiting", ![t].blk = blk]
            /\ UNCHANGED <<stVars, last>>
       ELSE \E i \in PinChoices(Storage, blk) :
               /\ Store(BufferManagerPin(Storage, blk, i))
               /\ wr' = [wr EXCEPT ![t].pinned = @ \cup {i}]
               /\ last' = Call(t, "Pin", blk, FALSE)
    /\ UNCHANGED <<locks, cmVars, txVars>>
    /\ UNCHANGED xVars

\* BufferManager.Pin, a round of its loop after the sleep: tryToPin returns a
\* frame and Pin returns it
P_PinRetry(t) ==
    /\ wr[t].pc = "waiting"
    /\ \E i \in PinChoices(Storage, wr[t].blk) :
          /\ Store(BufferManagerPin(Storage, wr[t].blk, i))
          /\ wr' = [wr EXCEPT ![t].pc = "new", ![t].blk = 0, ![t].freed = FALSE,
                              ![t].pinned = @ \cup {i}]
    /\ last' = Call(t, "PinWaited", wr[t].blk, FALSE)
    /\ UNCHANGED <<locks, cmVars, txVars>>
    /\ UNCHANGED xVars

P_PinAbort_Counted(t) ==
    /\ wr[t].pc = "waiting"
    /\ PinChoices(Storage, wr[t].blk) = {}
    /\ wr' = [wr EXCEPT ![t].pc = "new", ![t].blk = 0, ![t].freed = FALSE]
    /\ last' = Call(t, "PinWaited", wr[t].blk, TRUE)
    /\ numAvailable' = numAvailable - 1
    /\ UNCHANGED <<locks, cmVars, lm, logFile, disk, bufs, wal, txVars>>
    /\ UNCHANGED xVars

\* BufferManager.Pin, a round of its loop after the sleep: tryToPin returns
\* nil, the wait has been too long, Pin returns the BufferAbortError.  (While
\* the wait has not been too long the round changes nothing.)
P_PinAbort(t) ==
    /\ wr[t].pc = "waiting"
    /\ PinChoices(Storage, wr[t].blk) = {}
    /\ wr' = [wr EXCEPT ![t].pc = "new", ![t].blk = 0, ![t].freed = FALSE]
    /\ last' = Call(t, "PinWaited", wr[t].blk, TRUE)
    /\ UNCHANGED <<locks, cmVars, stVars, txVars>>
    /\ UNCHANGED xVars

\* BufferManager.Unpin of a frame the caller holds
P_Unpin(t, i) ==
    /\ wr[t].pc = "new"
    /\ i \in wr[t].pinned
    /\ Store(BufferManagerUnpin(Storage, i))
    /\ wr' = AfterCall(t, [wr[t] EXCEPT !.pinned = @ \ {i}],
                       Storage, BufferManagerUnpin(Storage, i))
    /\ last' = Call(t, "Unpin", bufs[i].block, FALSE)
    /\ UNCHANGED <<locks, cmVars, txVars>>
    /\ UNCHANGED xVars

(***************************************************************************)
(* Claims about the buffer manager (SpecBM).                               *)
(***************************************************************************)
\* the frames no caller has pinned
UnpinnedFrames == {i \in Buffers : bufs[i].pins = 0}

\* C13: between the calls of the buffer manager Available() is the number of
\* frames whose pin count is 0; it lies between 0 and the size of the pool and
\* is the size of the pool when every pin has been matched by an unpin.
C13_AvailableCount ==
    /\ Available = Cardinality(UnpinnedFrames)
    /\ Available >= 0 /\ Available <= NumBuffers
    /\ (\A t \in Txs : wr[t].pinned = {}) => Available = NumBuffers

\* an Unpin has left a frame pinned by the other caller; the other frame has
\* been pinned and unpinned and is available
C13_Witness ==
    /\ last.op = "Unpin"
    /\ \E i \in Buffers : bufs[i].pins = 1 /\ bufs[i].block = last.blk
    /\ \E j \in Buffers : bufs[j].pins = 0 /\ bufs[j].block # 0
    /\ Available = 1

\* C14: a Pin of a block that is not resident, made while every frame is
\* pinned and ended by the timeout, returns the BufferAbortError and leaves
\* the buffer manager as it was: the same blocks with the same pin counts and
\* the same Available().
C14_AbortChangesNothing ==
    [][\A t \in Txs :
          /\ \A b \in PoolBlocks :
                (P_Pin(t, b) /\ PinChoices(Storage, b) = {}) =>
                   UNCHANGED <<bufs, numAvailable, disk, logFile>>
          /\ P_PinAbort(t) =>
                /\ last'.err /\ last'.who = t
                /\ \A i \in Buffers : IsPinned(bufs[i]) /\ bufs[i].block # wr[t].blk
                /\ UNCHANGED <<bufs, numAvailable, disk, logFile>>
      ]_vars

\* a Pin has just returned the BufferAbortError: every frame is pinned by the
\* other caller
C14_Witness ==
    /\ last.op = "PinWaited" /\ last.err
    /\ Available = 0
    /\ \A i \in Buffers : IsPinned(bufs[i]) /\ bufs[i].block # last.blk
    /\ wr[last.who].pinned = {}

\* a frame that a Pin of block b can get: unpinned, or holding b
FrameFor(b) == \E i \in Buffers : ~IsPinned(bufs[i]) \/ bufs[i].block = b

C32_OneFramePerBlock ==
    [][/\ \A i, j \in Buffers :
             (i # j /\ bufs'[i].block # 0) => bufs'[i].block # bufs'[j].block
       /\ \A t \in Txs, b \in PoolBlocks :
             (/\ (P_Pin(t, b) \/ (P_PinRetry(t) /\ wr[t].blk = b))
              /\ \E i \in Buffers : bufs[i].block = b) =>
                /\ \A i \in Buffers : bufs'[i].block = bufs[i].block
                /\ \E i \in wr'[t].pinned \ wr[t].pinned :
                      bufs[i].block = b /\ bufs'[i].pins = bufs[i].pins + 1
      ]_vars

\* both callers have pinned the same block: one frame holds it, pinned twice
C32_Witness ==
    /\ last.op = "Pin"
    /\ \E i \in Buffers :
          /\ bufs[i].block = last.blk /\ bufs[i].pins = 2
          /\ \A t \in Txs : i \in wr[t].pinned
          /\ \A j \in Buffers \ {i} : bufs[j].block # last.blk

\* C33: a frame whose pin count is above 0 is not reassigned: from the Pin
\* that returned it to a caller until that caller's Unpin the frame is pinned
\* and holds the same block, whatever the other callers do.
C33_PinnedFrameKeepsBlock ==
    [][/\ \A i \in Buffers : IsPinned(bufs[i]) => bufs'[i].block = bufs[i].block
       /\ \A t \in Txs : \A i \in wr[t].pinned :
             /\ IsPinned(bufs[i])
             /\ i \in wr'[t].pinned => IsPinned(bufs'[i])
      ]_vars

\* a caller asks for a block that no frame holds while every frame is
\* pinned: it waits, and the frames hold the blocks they held
C33_Witness ==
    \E t \in Txs :
       /\ wr[t].pc = "waiting"
       /\ \A i \in Buffers :
             /\ IsPinned(bufs[i]) /\ bufs[i].block # wr[t].blk
             /\ \E u \in Txs \ {t} : i \in wr[u].pinned

(***************************************************************************)
(* Writers (SpecBuf): transactions that use the buffer pool, the log and   *)
(* the recovery manager the way Transaction does, one step per call that   *)
(* takes a mutex of its own.  A writer updates a block only while no other *)
(* unfinished writer has updated it, which is what the exclusive lock of   *)
(* Transaction.SetInt is for; the lock calls themselves are not part of    *)
(* this layer.                                                             *)
(***************************************************************************)
NewWriter ==
    [pc |-> "new", buf |-> 0, val |-> 0, lsn |-> -1, pinned |-> {}, wrote |-> EmptyMap,
     writes |-> 0, own |-> {}, blk |-> 0, freed |-> FALSE,
     it |-> NoIterator, got |-> <<>>, want |-> <<>>, ret |-> <<>>]

Unfinished(w) == w.pc \notin {"new", "done"}

\* no other unfinished writer has the block among those it writes (own)
MayWrite(t, blk) ==
    \A u \in Txs \ {t} : ~(Unfinished(wr[u]) /\ blk \in wr[u].own)

\* NewRecoveryManager: the START record
W_Begin(t) ==
    /\ wr[t].pc = "new"
    /\ TotalRecords < MaxLSN
    /\ Store(LogManagerAppend(Storage, TxRecordBytes(START, t)))
    /\ wr' = [wr EXCEPT ![t].pc = "active"]
    /\ UNCHANGED <<locks, last, cmVars, txVars>>
    /\ UNCHANGED xVars

\* Transaction.Pin -> BufferList.Pin -> BufferManager.Pin (a frame is always
\* to be had: the writers use no more blocks than the pool has frames)
W_Pin(t, blk) ==
    /\ wr[t].pc = "active"
    /\ \A i \in wr[t].pinned : bufs[i].block # blk
    /\ \E i \in PinChoices(Storage, blk) :
          /\ Store(BufferManagerPin(Storage, blk, i))
          /\ wr' = [wr EXCEPT ![t].pinned = @ \cup {i}]
    /\ UNCHANGED <<locks, last, cmVars, txVars>>
    /\ UNCHANGED xVars

\* Transaction.Unpin -> BufferList.Unpin -> BufferManager.Unpin
W_Unpin(t, i) ==
    /\ wr[t].pc = "active"
    /\ i \in wr[t].pinned
    /\ Store(BufferManagerUnpin(Storage, i))
    /\ wr' = [wr EXCEPT ![t].pinned = @ \ {i}]
    /\ UNCHANGED <<locks, last, cmVars, txVars>>
    /\ UNCHANGED xVars

\* Transaction.SetInt from GetBuffer to RecoveryManager.SetInt: the undo
\* record with the old value is appended when okToLog
W_SetIntLog(t, i, v, okToLog) ==
    /\ wr[t].pc = "active"
    /\ i \in wr[t].pinned
    /\ wr[t].writes < MaxWrites
    /\ MayWrite(t, bufs[i].block)
    /\ IF okToLog
       THEN /\ TotalRecords < MaxLSN
            /\ Store(LogManagerAppend(Storage,
                        SetIntRecordBytes(t, bufs[i].block, 0, bufs[i].contents)))
            /\ wr' = [wr EXCEPT ![t].pc = "logged", ![t].buf = i, ![t].val = v,
                                ![t].lsn = lm.latestLSN + 1,
                                ![t].own = @ \cup {bufs[i].block}]
       ELSE /\ UNCHANGED stVars
            /\ wr' = [wr EXCEPT ![t].pc = "logged", ![t].buf = i, ![t].val = v,
                                ![t].lsn = -1,
                                ![t].own = @ \cup {bufs[i].block}]
    /\ UNCHANGED <<locks, last, cmVars, txVars>>
    /\ UNCHANGED xVars

\* Transaction.SetInt: p.SetInt(offset, val)
W_SetIntPage(t) ==
    /\ wr[t].pc = "logged"
    /\ LET i == wr[t].buf
       IN  /\ bufs' = [bufs EXCEPT ![i].contents = wr[t].val,
                                   ![i].plsn = IF wr[t].lsn >= 0 THEN wr[t].lsn ELSE @]
           /\ wr' = [wr EXCEPT ![t].pc = "written",
                               ![t].wrote = MapPut(@, bufs[i].block, wr[t].val)]
    /\ UNCHANGED <<locks, last, cmVars, lm, logFile, disk, numAvailable, wal, txVars>>
    /\ UNCHANGED xVars

\* Transaction.SetInt: buff.SetModified(txnum, lsn)
W_SetIntMark(t) ==
    /\ wr[t].pc = "written"
    /\ bufs' = [bufs EXCEPT ![wr[t].buf] = SetModified(@, t, wr[t].lsn)]
    /\ wr' = [wr EXCEPT ![t].pc = "active", ![t].buf = 0, ![t].val = 0, ![t].lsn = -1,
                        ![t].writes = @ + 1]
    /\ UNCHANGED <<locks, last, cmVars, lm, logFile, disk, numAvailable, wal, txVars>>
    /\ UNCHANGED xVars

\* RecoveryManager.Commit: bm.FlushAll(txnum)
W_CommitFlushAll(t) ==
    /\ wr[t].pc = "active"
    /\ Store(FlushAll(Storage, t))
    /\ wr' = [wr EXCEPT ![t].pc = "flushed"]
    /\ UNCHANGED <<locks, last, cmVars, txVars>>
    /\ UNCHANGED xVars

\* RecoveryManager.Commit: the COMMIT record
W_CommitAppend(t) ==
    /\ wr[t].pc = "flushed"
    /\ TotalRecords < MaxLSN
    /\ Store(LogManagerAppend(Storage, TxRecordBytes(COMMIT, t)))
    /\ wr' = [wr EXCEPT ![t].pc = "appended", ![t].lsn = lm.latestLSN + 1]
    /\ UNCHANGED <<locks, last, cmVars, txVars>>
    /\ UNCHANGED xVars

\* RecoveryManager.Commit: lm.Flush(lsn)
W_CommitFlushLog(t) ==
    /\ wr[t].pc = "appended"
    /\ Store(LogManagerFlush(Storage, wr[t].lsn))
    /\ wr' = [wr EXCEPT ![t].pc = "saved"]
    /\ UNCHANGED <<locks, last, cmVars, txVars>>
    /\ UNCHANGED xVars

\* BufferList.UnpinAll
RECURSIVE UnpinSet(_, _)
UnpinSet(s, frames) ==
    IF frames = {} THEN s
    ELSE LET i == CHOOSE j \in frames : TRUE
         IN  UnpinSet(BufferManagerUnpin(s, i), frames \ {i})

\* Transaction.Commit after rm.Commit: the buffers are unpinned and Commit returns
W_CommitEnd(t) ==
    /\ wr[t].pc = "saved"
    /\ Store(UnpinSet(Storage, wr[t].pinned))
    /\ wr' = [wr EXCEPT ![t] = [NewWriter EXCEPT !.pc = "done"]]
    /\ UNCHANGED <<locks, last, cmVars, txVars>>
    /\ UNCHANGED xVars

(***************************************************************************)
(* Claims about the buffers, the log and commit (SpecBuf).                 *)
(***************************************************************************)
\* C3: whenever the page of a modified buffer is written to disk (by flushAll
\* or because the frame is reassigned), the log on disk already holds every
\* record up to the buffer's LSN, and so the undo record of every logged
\* modification the page contains.
C3_WriteAheadLog == wal.ok

\* a page has been written whose newest undo record was not yet on disk when
\* the flush of its buffer began: the flush wrote the log first
C3_Witness ==
    /\ wal.ok /\ wal.behind /\ wal.lsn >= 1
    /\ RecordsIn(logFile) >= wal.lsn

\* the records of the log file on disk
DiskRecords == {logFile[k].recs[j] : <<k, j>> \in
                   {kj \in (1..Len(logFile)) \X (1..8) : kj[2] <= Len(logFile[kj[1]].recs)}}

\* the records of the log page in memory
PageRecords == {lm.logpage.recs[j] : j \in 1..Len(lm.logpage.recs)}

\* every page transaction t modified is on disk with the value t gave it, and
\* no frame is left marked as modified by t
PagesOnDisk(t) ==
    /\ \A b \in DOMAIN wr[t].wrote : disk[b] = wr[t].wrote[b]
    /\ \A i \in Buffers : bufs[i].txnum # t

\* C4: the pages a transaction modified are written to disk before its COMMIT
\* record is appended, the record is appended before the log is flushed, and
\* when commit returns the pages and the COMMIT record are on disk.
C4_CommitDurable ==
    [][\A t \in Txs :
          /\ W_CommitAppend(t) => PagesOnDisk(t)
          /\ W_CommitFlushLog(t) =>
                 /\ TxRecordBytes(COMMIT, t) \in DiskRecords \cup PageRecords
                 /\ TxRecordBytes(COMMIT, t) \in DiskRecords'
          /\ W_CommitEnd(t) => PagesOnDisk(t) /\ TxRecordBytes(COMMIT, t) \in DiskRecords
      ]_vars

\* the commit of a transaction that modified a page has flushed the log: the
\* page and the COMMIT record are on disk
C4_Witness ==
    \E t \in Txs, b \in Blocks :
        /\ wr[t].pc = "saved"
        /\ b \in DOMAIN wr[t].wrote /\ disk[b] = wr[t].wrote[b] /\ disk[b] # 0
        /\ TxRecordBytes(COMMIT, t) \in DiskRecords

\* C16: FlushAll(txnum) writes to disk every frame whose modifying
\* transaction is txnum and clears the mark of those frames; it neither
\* writes nor changes a frame modified by another transaction or by none.
C16_FlushAllOnlyOwn ==
    [][\A t \in Txs : W_CommitFlushAll(t) =>
          \A i \in Buffers :
             IF bufs[i].txnum = t
             THEN /\ disk'[bufs[i].block] = bufs[i].contents
                  /\ bufs'[i] = [bufs[i] EXCEPT !.txnum = -1]
             ELSE /\ bufs'[i] = bufs[i]
                  /\ (bufs[i].block # 0 /\ bufs[i].txnum >= 0)
                        => disk'[bufs[i].block] = disk[bufs[i].block]
      ]_vars

\* a FlushAll has written the page of its transaction while the page another
\* transaction modified is still only in its frame
C16_Witness ==
    \E t \in Txs, i, j \in Buffers :
        /\ wr[t].pc = "flushed"
        /\ bufs[i].block \in DOMAIN wr[t].wrote /\ bufs[i].txnum = -1
        /\ disk[bufs[i].block] = bufs[i].contents /\ bufs[i].contents # 0
        /\ bufs[j].txnum >= 0 /\ bufs[j].txnum # t
        /\ disk[bufs[j].block] # bufs[j].contents

\* the value a Pin of block b followed by a read finds: the page of the frame
\* that holds b, else what the disk holds
ValueRead(b) ==
    IF \E i \in Buffers : bufs[i].block = b
    THEN bufs[CHOOSE i \in Buffers : bufs[i].block = b].contents
    ELSE disk[b]

\* C17: when a frame with unflushed modifications is reassigned, its page is
\* first written to the block it held and then the new block is read in; no
\* update is lost by the replacement: a later Pin of the old block finds the
\* modified contents.
C17_ReplacementKeepsUpdates ==
    [][/\ \A t \in Txs, blk \in Blocks : W_Pin(t, blk) =>
             \A i \in Buffers :
                (bufs'[i].block # bufs[i].block /\ bufs[i].txnum >= 0) =>
                   /\ disk'[bufs[i].block] = bufs[i].contents
                   /\ bufs'[i].txnum = -1
                   /\ bufs'[i].contents = disk'[blk]
       /\ \A u \in Txs : \A b \in DOMAIN wr'[u].wrote :
             ValueRead(b)' = wr'[u].wrote[b]
      ]_vars

\* the page a transaction modified has been replaced in its frame before the
\* transaction's commit: the modified value is on disk, and the block has
\* been pinned again into a frame that holds the modified value
C17_Witness ==
    \E t \in Txs, b \in Blocks, i \in Buffers :
        /\ wr[t].pc = "active"
        /\ b \in DOMAIN wr[t].wrote /\ wr[t].wrote[b] # 0
        /\ disk[b] = wr[t].wrote[b]
        /\ bufs[i].block = b /\ bufs[i].txnum = -1 /\ IsPinned(bufs[i])
        /\ bufs[i].contents = wr[t].wrote[b]

(***************************************************************************)
(* Callers of the log manager (SpecLog): goroutines that append records    *)
(* and read the log through an iterator, as those of                       *)
(* TestLogManager_ConcurrentOperations.  Append and Iterator hold the      *)
(* manager's mutex, so each is one step.  A record carries its caller and  *)
(* its number among the caller's records, which tell the records apart;    *)
(* the caller keeps the LSNs its appends returned (ret).                   *)
(***************************************************************************)
\* the sizes of the records appended: that of a START record and that of a
\* SETINT record, which leaves room for no second record in its block
RecSizes == {8, 28}

\* lm.Append(record)
G_Append(t, size) ==
    /\ TotalRecords < MaxAppends
    /\ LET s == LogManagerAppend(Storage, [words |-> <<t, Len(wr[t].ret) + 1>>,
                                           size |-> size])
       IN  /\ Store(s)
           /\ wr' = [wr EXCEPT ![t].ret = Append(@, s.lm.latestLSN)]
    /\ UNCHANGED <<locks, last, cmVars, txVars>>
    /\ UNCHANGED xVars

\* the records appended so far, newest first
RECURSIVE NewestFirst(_, _)
NewestFirst(blocks, k) ==
    IF k = 0 THEN <<>>
    ELSE blocks[k].recs \o NewestFirst(blocks, k - 1)

\* lm.Iterator(): the flush, then NewLogIterator on the current block.  want
\* notes the records appended before the call, newest first
G_Iterator(t) ==
    /\ wr[t].it = NoIterator
    /\ LET s == flush(Storage)
       IN  /\ Store(s)
           /\ wr' = [wr EXCEPT ![t].it = NewLogIterator(s.logFile, s.lm.currentBlock),
                               ![t].got = <<>>,
                               ![t].want = NewestFirst(s.logFile, Len(s.logFile))]
    /\ UNCHANGED <<locks, last, cmVars, txVars>>
    /\ UNCHANGED xVars

\* one turn of the loop "for iter.HasNext() { iter.Next() }"
G_Next(t) ==
    /\ wr[t].it # NoIterator
    /\ HasNext(wr[t].it)
    /\ Len(wr[t].got) < MaxYield
    /\ LET n == IteratorNext(logFile, wr[t].it)
       IN  wr' = [wr EXCEPT ![t].it = n.it, ![t].got = Append(@, n.rec)]
    /\ UNCHANGED <<locks, last, cmVars, stVars, txVars>>
    /\ UNCHANGED xVars

NextLog ==
    \/ \E t \in Txs, size \in RecSizes : G_Append(t, size)
    \/ \E t \in Txs : G_Iterator(t)
    \/ \E t \in Txs : G_Next(t)

\* C20: for appends r1..rk of records of any sizes that fit in a block,
\* over any number of log blocks and by any callers, the iterator yields
\* exactly the k records in the order rk, ..., r1: what it has yielded is
\* always the newest records in that order, none twice, and it has a next
\* record exactly when it has not yet yielded all k.
C20_IteratorYieldsAppended ==
    \A t \in Txs :
       wr[t].it # NoIterator =>
          /\ Len(wr[t].got) <= Len(wr[t].want)
          /\ wr[t].got = SubSeq(wr[t].want, 1, Len(wr[t].got))
          /\ HasNext(wr[t].it) <=> Len(wr[t].got) < Len(wr[t].want)

\* the records of the log, in memory or on disk, newest first
LogNewestFirst ==
    NewestFirst([logFile EXCEPT ![lm.currentBlock] = lm.logpage], Len(logFile))

\* C21: the first append of the process returns LSN 1 and every later one
\* the LSN after that of the append before it, whoever the callers are: no
\* two appends get the same LSN, and the record that is p-th in the log is
\* the one whose append returned p.
C21_LSNsFollowAppends ==
    LET recs == LogNewestFirst
        k == Len(recs)
    IN  /\ \A t \in Txs : \A j \in 1..Len(wr[t].ret) : wr[t].ret[j] \in 1..k
        /\ \A p \in 1..k :
              LET r == recs[k + 1 - p]
              IN  /\ r.words[2] <= Len(wr[r.words[1]].ret)
                  /\ wr[r.words[1]].ret[r.words[2]] = p

\* two callers have appended in turn, over two log blocks
C21_Witness ==
    /\ wr[1].ret = <<1, 3>> /\ wr[2].ret = <<2>>
    /\ Len(logFile) >= 2

InitStore ==
    /\ lm = NewLogManager
    /\ logFile = <<EmptyLogPage>>
    /\ disk = [b \in PoolBlocks |-> 0]
    /\ bufs = [i \in Buffers |-> NewBuffer]
    /\ numAvailable = NumBuffers
    /\ wal = [ok |-> TRUE, lsn |-> -1, behind |-> FALSE]
    /\ wr = [t \in Txs |-> NewWriter]

(***************************************************************************)
(* Log records as the recovery manager reads them (unnamed/part_004).      *)
(***************************************************************************)
\* the nil LogRecord CreateLogRecord returns for a tag it does not know
NilRecord == [op |-> -2, tx |-> -2, blk |-> 0, val |-> 0]

\* CreateLogRecord: the tag is read with Page.GetInt(0); NewCommitRecord builds
\* a StartRecord, whose Op() is START
CreateLogRecord(rec) ==
    LET tag == rec.words[1]
    IN  IF tag = CHECKPOINT THEN [op |-> CHECKPOINT, tx |-> -1, blk |-> 0, val |-> 0]
        ELSE IF tag = START THEN [op |-> START, tx |-> rec.words[2], blk |-> 0, val |-> 0]
        ELSE IF tag = COMMIT THEN [op |-> START, tx |-> rec.words[2], blk |-> 0, val |-> 0]
        ELSE IF tag = ROLLBACK THEN [op |-> ROLLBACK, tx |-> rec.words[2], blk |-> 0, val |-> 0]
        ELSE IF tag = SETINT
        THEN [op |-> SETINT, tx |-> rec.words[2], blk |-> rec.words[4], val |-> rec.words[6]]
        ELSE NilRecord

\* the newest record of the log page, as CreateLogRecord decodes it
NewestDecoded == CreateLogRecord(Head(lm.logpage.recs))

\* C22: a log record decodes as it was written: the record a writer's START,
\* SETINT or COMMIT has just appended decodes to a record of that type with
\* the writer's transaction number.
C22_RecordsDecodeAsWritten ==
    [][\A t \in Txs :
          /\ W_Begin(t) => (NewestDecoded'.op = START /\ NewestDecoded'.tx = t)
          /\ W_CommitAppend(t) => (NewestDecoded'.op = COMMIT /\ NewestDecoded'.tx = t)
          /\ \A i \in Buffers, v \in 1..MaxVal :
                W_SetIntLog(t, i, v, TRUE) =>
                   (NewestDecoded'.op = SETINT /\ NewestDecoded'.tx = t)
      ]_vars

(***************************************************************************)
(* Transaction (unnamed/part_007) as NewTransaction builds it: its         *)
(* ConcurrencyManager is created with a nil lock table.  A call through a  *)
(* nil *LockTable or a nil LogRecord panics; the panic is not recovered    *)
(* and ends the process (proc = "down"): the memory is lost, the files     *)
(* stay.  st is not a field of Transaction: it notes that Commit or        *)
(* Rollback has returned.                                                  *)
(***************************************************************************)
NilLockTable == "nil"

NoTransaction ==
    [st |-> "none", pins |-> <<>>, buffers |-> EmptyMap, cmLocks |-> EmptyMap,
     locktable |-> NilLockTable]

NewTransaction == [NoTransaction EXCEPT !.st = "active"]

\* ConcurrencyManager.SLock / XLock of a transaction: nothing to do when the
\* manager's map has the lock, else a call on cm.locktable, which is nil
CMLockOutcome(tx, b, mode) ==
    IF (mode = "S" /\ b \in DOMAIN tx.cmLocks) \/ cmHasXLock(tx.cmLocks, b)
    THEN "held"
    ELSE "panic"

\* the process ends: buffers, log page and transactions are gone
Down(who, op, b) ==
    /\ proc' = "down"
    /\ last' = Call(who, op, b, FALSE)
    /\ lm' = NewLogManager
    /\ bufs' = [i \in Buffers |-> NewBuffer]
    /\ numAvailable' = NumBuffers
    /\ txs' = [t \in Txs |-> NoTransaction]
    /\ nextTxNum' = 0

\* the database directory (internal/app/server/centauriDB.go): dir says that
\* the directory exists, isNew is FileManager.isNew of the running process,
\* catalog that the catalog tables tblcat and fldcat have been created,
\* recovered that the last NewCentauriDB has run tx.Recover to its end
NoDirectory == [dir |-> FALSE, isNew |-> FALSE, catalog |-> FALSE, recovered |-> FALSE]

\* os.MkdirAll
MkdirAll(d) == [d EXCEPT !.dir = TRUE]

\* NewFileManager: isNew when os.Stat finds no directory, which is then made
NewFileManager(d) == [d EXCEPT !.isNew = ~d.dir, !.dir = TRUE]

\* NewLogManager: a first block for an empty log, else the last block is read
OpenLog(blocks) ==
    IF blocks = <<>>
    THEN [lm |-> NewLogManager, logFile |-> <<EmptyLogPage>>]
    ELSE [lm |-> [logpage |-> blocks[Len(blocks)], currentBlock |-> Len(blocks),
                  latestLSN |-> 0, lastSavedLSN |-> 0],
          logFile |-> blocks]

\* NewCentauriDBWithConfig: os.MkdirAll, NewFileManager, NewLogManager,
\* NewBufferManager
Restart ==
    /\ proc = "down"
    /\ proc' = "up"
    /\ db' = NewFileManager(MkdirAll(db))
    /\ lm' = OpenLog(logFile).lm
    /\ logFile' = OpenLog(logFile).logFile
    /\ last' = Call(0, "Restart", 0, FALSE)
    /\ UNCHANGED <<locks, cmVars, disk, bufs, numAvailable, wal, wr, txs, nextTxNum>>
    /\ UNCHANGED <<lay, bt, ts>>

\* the directory of a stopped database is removed with its files
RemoveDir ==
    /\ proc = "down"
    /\ db.dir
    /\ db' = NoDirectory
    /\ logFile' = <<>>
    /\ disk' = [b \in PoolBlocks |-> 0]
    /\ last' = Call(0, "RemoveDir", 0, FALSE)
    /\ UNCHANGED <<locks, cmVars, lm, bufs, numAvailable, wal, wr, txVars>>
    /\ UNCHANGED <<lay, bt, ts>>

\* the process is killed
Crash ==
    /\ proc = "up"
    /\ Down(0, "Crash", 0)
    /\ UNCHANGED <<locks, cmVars, logFile, disk, wal, wr>>
    /\ UNCHANGED xVars

\* CentauriDB.NewTx -> NewTransaction: the next number, the START record
NewTx ==
    /\ proc = "up"
    /\ nextTxNum < NumTx
    /\ TotalRecords < MaxLSN
    /\ LET t == nextTxNum + 1
       IN  /\ nextTxNum' = t
           /\ Store(LogManagerAppend(Storage, TxRecordBytes(START, t)))
           /\ txs' = [txs EXCEPT ![t] = NewTransaction]
           /\ last' = Call(t, "NewTx", 0, FALSE)
    /\ UNCHANGED <<locks, cmVars, wr, proc>>
    /\ UNCHANGED xVars

\* a call of transaction t is possible: the process runs and the object exists
\* (Transaction keeps no state of its own that a call could test)
Callable(t) == proc = "up" /\ txs[t].st # "none"

\* BufferList.Pin, once the buffer manager has chosen frame i
BufferListPin(x, b, i) ==
    [x EXCEPT !.buffers = MapPut(@, b, i), !.pins = Append(@, b)]

\* BufferList.Unpin: the first entry for the block is overwritten with the last
\* entry and the list is cut by one
RemovePin(pins, b) ==
    LET k == CHOOSE j \in 1..Len(pins) :
                 pins[j] = b /\ \A h \in 1..(j - 1) : pins[h] # b
    IN  SubSeq([pins EXCEPT ![k] = pins[Len(pins)]], 1, Len(pins) - 1)

BufferListUnpin(x, b) ==
    LET rest == RemovePin(x.pins, b)
    IN  [x EXCEPT !.pins = rest,
                  !.buffers = IF \E j \in 1..Len(rest) : rest[j] = b
                              THEN @ ELSE MapDelete(@, b)]

RECURSIVE UnpinAll_OncePerBlock(_, _, _)
UnpinAll_OncePerBlock(s, x, k) ==
    IF k > Len(x.pins) THEN s
    ELSE UnpinAll_OncePerBlock(
             IF x.pins[k] \in DOMAIN x.buffers
                /\ \A h \in 1..(k - 1) : x.pins[h] # x.pins[k]
             THEN BufferManagerUnpin(s, x.buffers[x.pins[k]])
             ELSE s,
             x, k + 1)

\* BufferList.UnpinAll: one bm.Unpin per entry of the pin list
RECURSIVE UnpinAll(_, _, _)
UnpinAll(s, x, k) ==
    IF k > Len(x.pins) THEN s
    ELSE UnpinAll(IF x.pins[k] \in DOMAIN x.buffers
                  THEN BufferManagerUnpin(s, x.buffers[x.pins[k]])
                  ELSE s,
                  x, k + 1)

\* Transaction.Pin
TxPin(t, b) ==
    /\ Callable(t)
    /\ Len(txs[t].pins) < MaxPins
    /\ IF PinChoices(Storage, b) = {}
       THEN UNCHANGED <<stVars, txs>>
       ELSE \E i \in PinChoices(Storage, b) :
               /\ Store(BufferManagerPin(Storage, b, i))
               /\ txs' = [txs EXCEPT ![t] = BufferListPin(@, b, i)]
    /\ last' = Call(t, "Pin", b, PinChoices(Storage, b) = {})
    /\ UNCHANGED <<locks, cmVars, wr, nextTxNum, proc>>
    /\ UNCHANGED xVars

\* Transaction.Unpin
TxUnpin(t, b) ==
    /\ Callable(t)
    /\ IF b \in DOMAIN txs[t].buffers
       THEN /\ Store(BufferManagerUnpin(Storage, txs[t].buffers[b]))
            /\ txs' = [txs EXCEPT ![t] = BufferListUnpin(@, b)]
       ELSE UNCHANGED <<stVars, txs>>
    /\ last' = Call(t, "Unpin", b, b \notin DOMAIN txs[t].buffers)
    /\ UNCHANGED <<locks, cmVars, wr, nextTxNum, proc>>
    /\ UNCHANGED xVars

\* Transaction.GetInt
TxGetInt(t, b) ==
    /\ Callable(t)
    /\ IF CMLockOutcome(txs[t], b, "S") = "panic"
       THEN /\ Down(t, "GetInt", b)
            /\ UNCHANGED <<logFile, disk, wal>>
       ELSE /\ last' = Call(t, "GetInt", b, b \notin DOMAIN txs[t].buffers)
            /\ UNCHANGED <<stVars, txVars>>
    /\ UNCHANGED <<locks, cmVars, wr>>
    /\ UNCHANGED xVars

\* Transaction.SetInt after the lock: GetBuffer, the undo record when okToLog,
\* the page, SetModified
SetIntBody(s, t, i, v, okToLog) ==
    LET b == s.bufs[i]
        s1 == IF okToLog
              THEN LogManagerAppend(s, SetIntRecordBytes(t, b.block, 0, b.contents))
              ELSE s
        lsn == IF okToLog THEN s1.lm.latestLSN ELSE -1
    IN  [s1 EXCEPT !.bufs[i] =
            SetModified([b EXCEPT !.contents = v,
                                  !.plsn = IF lsn >= 0 THEN lsn ELSE @], t, lsn)]

\* Transaction.SetInt
TxSetInt(t, b, v, okToLog) ==
    /\ Callable(t)
    /\ IF CMLockOutcome(txs[t], b, "X") = "panic"
       THEN /\ Down(t, "SetInt", b)
            /\ UNCHANGED <<logFile, disk, wal>>
       ELSE /\ last' = Call(t, "SetInt", b, b \notin DOMAIN txs[t].buffers)
            /\ IF b \in DOMAIN txs[t].buffers
               THEN Store(SetIntBody(Storage, t, txs[t].buffers[b], v, okToLog))
               ELSE UNCHANGED stVars
            /\ UNCHANGED txVars
    /\ UNCHANGED <<locks, cmVars, wr>>
    /\ UNCHANGED xVars

\* the block number of the dummy block Size and Append lock
EndOfFile == -1

\* FileManager.Append: a block of zeros after the last block of the file
FileManagerAppend(d) ==
    [b \in 1..(Cardinality(DOMAIN d) + 1) |-> IF b \in DOMAIN d THEN d[b] ELSE 0]

\* Transaction.Size: cm.SLock on the dummy block, then fm.Length
TxSize(t) ==
    /\ Callable(t)
    /\ IF CMLockOutcome(txs[t], EndOfFile, "S") = "panic"
       THEN /\ Down(t, "Size", EndOfFile)
            /\ UNCHANGED <<logFile, disk, wal>>
       ELSE /\ last' = Call(t, "Size", EndOfFile, FALSE)
            /\ UNCHANGED <<stVars, txVars>>
    /\ UNCHANGED <<locks, cmVars, wr>>
    /\ UNCHANGED xVars

\* Transaction.Append: cm.XLock on the dummy block, then fm.Append
TxAppend(t) ==
    /\ Callable(t)
    /\ IF CMLockOutcome(txs[t], EndOfFile, "X") = "panic"
       THEN /\ Down(t, "Append", EndOfFile)
            /\ UNCHANGED <<logFile, disk, wal>>
       ELSE /\ last' = Call(t, "Append", EndOfFile, FALSE)
            /\ disk' = FileManagerAppend(disk)
            /\ UNCHANGED <<lm, logFile, bufs, numAvailable, wal, txVars>>
    /\ UNCHANGED <<locks, cmVars, wr>>
    /\ UNCHANGED xVars

\* RecoveryManager.Commit: FlushAll, the COMMIT record, the log flush
RMCommit(s, t) ==
    LET s1 == LogManagerAppend(FlushAll(s, t), TxRecordBytes(COMMIT, t))
    IN  LogManagerFlush(s1, s1.lm.latestLSN)

\* Transaction.Commit: rm.Commit, cm.Release (a call on the lock table for each
\* lock of the manager's map), UnpinAll
TxCommit(t) ==
    /\ Callable(t)
    /\ TotalRecords < MaxLSN
    /\ IF txs[t].cmLocks # EmptyMap /\ txs[t].locktable = NilLockTable
       THEN /\ Down(t, "Commit", 0)
            /\ LET s == RMCommit(Storage, t)
               IN  logFile' = s.logFile /\ disk' = s.disk /\ wal' = s.wal
       ELSE /\ Store(UnpinAll(RMCommit(Storage, t), txs[t], 1))
            /\ txs' = [txs EXCEPT ![t] = [@ EXCEPT !.st = "committed", !.pins = <<>>,
                                            !.buffers = EmptyMap, !.cmLocks = EmptyMap]]
            /\ last' = [Call(t, "Commit", 0, FALSE) EXCEPT !.pins = txs[t].pins]
            /\ UNCHANGED <<nextTxNum, proc>>
    /\ UNCHANGED <<locks, cmVars, wr>>
    /\ UNCHANGED xVars

\* the frame bm.Pin returns during an undo
Chosen(s, b) == FirstOf(PinChoices(s, b))

\* LogRecord.undo.  Only SetIntRecord restores something: tx.Pin, tx.SetInt
\* without logging, tx.Unpin.  o holds the storage, the transaction and how
\* the scan stands ("run", "done", "panic")
Undo(o, t, r) ==
    IF r.op # SETINT THEN o
    ELSE LET b == r.blk
             canPin == PinChoices(o.s, b) # {}
             i == Chosen(o.s, b)
             s1 == IF canPin THEN BufferManagerPin(o.s, b, i) ELSE o.s
             x1 == IF canPin THEN BufferListPin(o.x, b, i) ELSE o.x
         IN  IF CMLockOutcome(x1, b, "X") = "panic"
             THEN [s |-> s1, x |-> x1, res |-> "panic"]
             ELSE IF b \notin DOMAIN x1.buffers
             THEN [s |-> s1, x |-> x1, res |-> o.res]
             ELSE LET f == x1.buffers[b]
                      s2 == SetIntBody(s1, t, f, r.val, FALSE)
                  IN  [s |-> BufferManagerUnpin(s2, f),
                       x |-> BufferListUnpin(x1, b), res |-> o.res]

\* RecoveryManager.doRollback, the loop from the iterator's state it on
RECURSIVE doRollback(_, _, _)
doRollback(o, t, it) ==
    IF o.res # "run" THEN o
    ELSE IF ~HasNext(it) THEN [o EXCEPT !.res = "done"]
    ELSE LET n == IteratorNext(o.s.logFile, it)
             r == CreateLogRecord(n.rec)
         IN  IF r = NilRecord THEN [o EXCEPT !.res = "panic"]
             ELSE IF r.tx # t THEN doRollback(o, t, n.it)
             ELSE IF r.op = START THEN [o EXCEPT !.res = "done"]
             ELSE doRollback(Undo(o, t, r), t, n.it)

\* RecoveryManager.doRecover, the loop from the iterator's state it on
RECURSIVE doRecover(_, _, _, _)
doRecover(o, t, it, finishedTxns) ==
    IF o.res # "run" THEN o
    ELSE IF ~HasNext(it) THEN [o EXCEPT !.res = "done"]
    ELSE LET n == IteratorNext(o.s.logFile, it)
             r == CreateLogRecord(n.rec)
         IN  IF r = NilRecord THEN [o EXCEPT !.res = "panic"]
             ELSE IF r.op = CHECKPOINT THEN [o EXCEPT !.res = "done"]
             ELSE IF r.op \in {COMMIT, ROLLBACK}
             THEN doRecover(o, t, n.it, finishedTxns \cup {r.tx})
             ELSE IF r.tx \in finishedTxns
             THEN doRecover(o, t, n.it, finishedTxns)
             ELSE doRecover(Undo(o, t, r), t, n.it, finishedTxns)

\* the scan of a rollback or a recovery: lm.Iterator flushes the log page and
\* opens an iterator on the current block
ScanAs(s, x, t, kind) ==
    LET s1 == flush(s)
        o == [s |-> s1, x |-> x, res |-> "run"]
        it == NewLogIterator(s1.logFile, s1.lm.currentBlock)
    IN  IF kind = "Rollback" THEN doRollback(o, t, it)
        ELSE doRecover(o, t, it, {})

Scan(s, t, kind) == ScanAs(s, txs[t], t, kind)

\* what follows the scan in RecoveryManager.Rollback and Recover: FlushAll,
\* the ROLLBACK or CHECKPOINT record, the log flush
RMFinish(s, t, rec) ==
    LET s1 == LogManagerAppend(FlushAll(s, t), rec)
    IN  LogManagerFlush(s1, s1.lm.latestLSN)

\* Transaction.Rollback: rm.Rollback, cm.Release, UnpinAll
TxRollback(t) ==
    /\ Callable(t)
    /\ TotalRecords < MaxLSN
    /\ LET o == Scan(Storage, t, "Rollback")
              s == RMFinish(o.s, t, TxRecordBytes(ROLLBACK, t))
          IN  IF o.res = "panic"
              THEN /\ Down(t, "Rollback", 0)
                   /\ logFile' = o.s.logFile /\ disk' = o.s.disk /\ wal' = o.s.wal
              ELSE IF o.x.cmLocks # EmptyMap /\ o.x.locktable = NilLockTable
              THEN /\ Down(t, "Rollback", 0)
                   /\ logFile' = s.logFile /\ disk' = s.disk /\ wal' = s.wal
              ELSE /\ Store(UnpinAll(s, o.x, 1))
                   /\ txs' = [txs EXCEPT ![t] =
                                 [o.x EXCEPT !.st = "rolledback", !.pins = <<>>,
                                             !.buffers = EmptyMap, !.cmLocks = EmptyMap]]
                   /\ last' = Call(t, "Rollback", 0, FALSE)
                   /\ UNCHANGED <<nextTxNum, proc>>
    /\ UNCHANGED <<locks, cmVars, wr>>
    /\ UNCHANGED xVars

\* Transaction.Recover: bm.FlushAll, then rm.Recover
TxRecover(t) ==
    /\ Callable(t)
    /\ TotalRecords < MaxLSN
    /\ LET o == Scan(FlushAll(Storage, t), t, "Recover")
          IN  IF o.res = "panic"
              THEN /\ Down(t, "Recover", 0)
                   /\ logFile' = o.s.logFile /\ disk' = o.s.disk /\ wal' = o.s.wal
              ELSE /\ Store(RMFinish(o.s, t, TxRecordBytes(CHECKPOINT, t)))
                   /\ txs' = [txs EXCEPT ![t] = o.x]
                   /\ last' = Call(t, "Recover", 0, FALSE)
                   /\ UNCHANGED <<nextTxNum, proc>>
    /\ UNCHANGED <<locks, cmVars, wr>>
    /\ UNCHANGED xVars

(***************************************************************************)
(* Start-up (internal/app/server/centauriDB.go).                           *)
(***************************************************************************)
\* NewMetaDataManager(isNew, tx): NewTableManager creates tblcat and fldcat for
\* a new database and NewStatManager scans tblcat; both open a TableScan, whose
\* first call is tx.Size
MetaDataOutcome(x) == CMLockOutcome(x, EndOfFile, "S")

\* NewCentauriDB: NewCentauriDBWithConfig, NewTx, tx.Recover unless the file
\* manager says the database is new, NewMetaDataManager, tx.Commit
NewCentauriDB ==
    /\ proc = "down"
    /\ RecordsIn(logFile) < MaxLSN
    /\ LET d == NewFileManager(MkdirAll(db))
           t == nextTxNum + 1
           s0 == [Storage EXCEPT !.lm = OpenLog(logFile).lm,
                                 !.logFile = OpenLog(logFile).logFile]
           s1 == LogManagerAppend(s0, TxRecordBytes(START, t))
           o == IF d.isNew THEN [s |-> s1, x |-> NewTransaction, res |-> "done"]
                ELSE ScanAs(FlushAll(s1, t), NewTransaction, t, "Recover")
           s2 == IF d.isNew THEN s1 ELSE RMFinish(o.s, t, TxRecordBytes(CHECKPOINT, t))
       IN  IF o.res = "panic"
           THEN /\ Down(t, "NewCentauriDB", 0)
                /\ logFile' = o.s.logFile /\ disk' = o.s.disk /\ wal' = o.s.wal
                /\ db' = [d EXCEPT !.recovered = FALSE]
           ELSE IF MetaDataOutcome(o.x) = "panic"
           THEN /\ Down(t, "NewCentauriDB", 0)
                /\ logFile' = s2.logFile /\ disk' = s2.disk /\ wal' = s2.wal
                /\ db' = [d EXCEPT !.recovered = ~d.isNew]
           ELSE /\ Store(UnpinAll(RMCommit(s2, t), o.x, 1))
                /\ txs' = [txs EXCEPT ![t] = [o.x EXCEPT !.st = "committed", !.pins = <<>>,
                                                !.buffers = EmptyMap]]
                /\ nextTxNum' = t
                /\ proc' = "up"
                /\ last' = Call(t, "NewCentauriDB", 0, FALSE)
                /\ db' = [d EXCEPT !.recovered = ~d.isNew, !.catalog = @ \/ d.isNew]
    /\ UNCHANGED <<locks, cmVars, wr>>
    /\ UNCHANGED <<lay, bt, ts>>

\* C28: NewCentauriDB on a directory that does not exist takes the database
\* for new, runs no recovery and creates the catalog tables; on a directory
\* that exists it runs recovery and creates no catalog table.
C28_StartupByDirectory ==
    [][NewCentauriDB =>
          /\ proc' = "up"
          /\ db'.isNew = ~db.dir
          /\ db'.recovered = db.dir
          /\ db'.catalog = (db.catalog \/ ~db.dir)
      ]_vars

\* the records of a log, newest first, down to its newest CHECKPOINT record
RECURSIVE SinceCheckpoint(_)
SinceCheckpoint(recs) ==
    IF recs = <<>> THEN <<>>
    ELSE IF Head(recs).words[1] = TxRecordBytes(CHECKPOINT, 0).words[1] THEN <<>>
    ELSE <<Head(recs)>> \o SinceCheckpoint(Tail(recs))

\* the blocks the SETINT records of a sequence of log records are about
SetIntBlocks(recs) ==
    {recs[j].words[4] : j \in {k \in 1..Len(recs) : recs[k].words[1] = BigEndian32(SETINT)}}

\* the storage a step leaves
StorageAfter ==
    [lm |-> lm', logFile |-> logFile', disk |-> disk', bufs |-> bufs',
     numAvailable |-> numAvailable', wal |-> wal']

\* C30: Recover returns; it leaves alone every block that no SETINT record
\* newer than the newest CHECKPOINT names; the newest record of the log is
\* then a CHECKPOINT record, and it is on disk; a second Recover would find
\* no block to change.
C30_RecoverEndsAtCheckpoint ==
    [][\A t \in Txs : TxRecover(t) =>
          /\ proc' = "up"
          /\ \A b \in PoolBlocks \ SetIntBlocks(SinceCheckpoint(LogNewestFirst)) :
                disk'[b] = FlushAll(Storage, t).disk[b]
          /\ Head(logFile'[Len(logFile')].recs) = TxRecordBytes(CHECKPOINT, t)
          /\ lm'.lastSavedLSN = lm'.latestLSN
          /\ ScanAs(FlushAll(StorageAfter, t), txs'[t], t, "Recover").s.disk = disk'
      ]_vars

\* the records of a log, newest first, down to the START record of transaction t
RECURSIVE UntilStart(_, _)
UntilStart(recs, t) ==
    IF recs = <<>> THEN <<>>
    ELSE IF Head(recs).words = TxRecordBytes(START, t).words THEN <<>>
    ELSE <<Head(recs)>> \o UntilStart(Tail(recs), t)

\* the blocks transaction t has logged a SetInt on since its START record
BlocksLoggedBy(t) ==
    SetIntBlocks(SelectSeq(UntilStart(LogNewestFirst, t),
                           LAMBDA r : r.words[2] = BigEndian32(t)))

\* C31: Rollback of transaction t returns, having gone through the log down
\* to t's START record and appended t's ROLLBACK record; it undoes records
\* of t only, so a block t has logged no write on has on disk the value it
\* had before.
C31_RollbackUndoesOnlyOwn ==
    [][\A t \in Txs : TxRollback(t) =>
          /\ proc' = "up"
          /\ txs'[t].st = "rolledback"
          /\ Head(logFile'[Len(logFile')].recs) = TxRecordBytes(ROLLBACK, t)
          /\ \A b \in PoolBlocks \ BlocksLoggedBy(t) : disk'[b] = disk[b]
      ]_vars

(***************************************************************************)
(* Claims about transactions (Spec).  No SetInt of a transaction built by  *)
(* NewTransaction completes, so every block reads 0, the value of a fresh  *)
(* page, throughout.                                                       *)
(***************************************************************************)
\* an operation of transaction t
OpOf(t) ==
    \/ \E b \in Blocks : TxPin(t, b) \/ TxUnpin(t, b) \/ TxGetInt(t, b)
    \/ \E b \in Blocks, v \in 1..MaxVal, okToLog \in BOOLEAN : TxSetInt(t, b, v, okToLog)
    \/ TxSize(t) \/ TxAppend(t)
    \/ TxCommit(t) \/ TxRollback(t) \/ TxRecover(t)

\* C1: after a crash, running recover() leaves the blocks on disk with the
\* updates of transactions without a COMMIT record in the flushed log
\* reverted to their pre-image and the updates of the others preserved.
C1_RecoverRestores ==
    [][\A t \in Txs : TxRecover(t) =>
          /\ proc' = "up"
          /\ \A b \in Blocks : disk'[b] = 0]_vars

\* C2: when a transaction's SetInt writes into a buffer page, the
\* transaction holds the exclusive lock on the page's block in the lock
\* table all transactions share, and no other transaction holds a lock on
\* that block.
C2_SetIntUnderXLock ==
    [][\A t \in Txs, b \in Blocks, v \in 1..MaxVal, okToLog \in BOOLEAN :
          (TxSetInt(t, b, v, okToLog) /\ b \in DOMAIN txs[t].buffers) =>
             /\ proc' = "up"
             /\ txs'[t].locktable # NilLockTable
             /\ cmHasXLock(txs'[t].cmLocks, b)
             /\ \A u \in Txs \ {t} : b \notin DOMAIN txs'[u].cmLocks]_vars

\* C5: after a transaction's rollback() every location it wrote holds the
\* value it held before the transaction's first write, as a transaction
\* started afterwards reads it.
C5_RollbackRestores ==
    [][\A t \in Txs : TxRollback(t) =>
          /\ proc' = "up"
          /\ txs'[t].st = "rolledback"
          /\ \A b \in Blocks : ValueRead(b)' = 0]_vars

\* C9: a transaction acquires no lock after it has released one, and once
\* its Commit or Rollback has returned no further operation of it takes
\* effect or acquires a lock.
C9_NoOperationAfterEnd ==
    [][\A t \in Txs :
          (txs[t].st \in {"committed", "rolledback"} /\ OpOf(t)) =>
             UNCHANGED <<locks, stVars, txVars>>]_vars

\* C23: Append extends the file only while the transaction holds the
\* exclusive lock on the dummy end-of-file block, and Size reads the length
\* under a shared lock on it; so the length does not change while another
\* transaction holds the shared lock its Size took.
C23_LengthUnderSentinelLock ==
    [][\A t \in Txs :
          /\ TxSize(t) =>
                /\ proc' = "up"
                /\ txs'[t].locktable # NilLockTable
                /\ EndOfFile \in DOMAIN txs'[t].cmLocks
          /\ TxAppend(t) =>
                /\ proc' = "up"
                /\ txs'[t].locktable # NilLockTable
                /\ cmHasXLock(txs'[t].cmLocks, EndOfFile)
                /\ \A u \in Txs \ {t} : EndOfFile \notin DOMAIN txs'[u].cmLocks
      ]_vars

\* the pins transaction u holds on frame i: the entries of its pin list whose
\* block its buffer map sends to i
PinsOf(u, i) ==
    Cardinality({k \in 1..Len(txs[u].pins) :
                    txs[u].pins[k] \in DOMAIN txs[u].buffers
                    /\ txs[u].buffers[txs[u].pins[k]] = i})

RECURSIVE PinsOfAll(_, _)
PinsOfAll(us, i) ==
    IF us = {} THEN 0
    ELSE LET u == CHOOSE x \in us : TRUE
         IN  PinsOf(u, i) + PinsOfAll(us \ {u}, i)

C19_RecoverReleasesAll ==
    [][\A t \in Txs : TxRecover(t) =>
          /\ proc' = "up"
          /\ txs'[t].cmLocks = EmptyMap
          /\ txs'[t].pins = <<>>
          /\ txs'[t].buffers = EmptyMap
          /\ \A i \in Buffers : bufs'[i].pins = PinsOfAll(Txs \ {t}, i)
      ]_vars

(***************************************************************************)
(* Schema and Layout (internal/app/record/schema.go, unnamed/part_021).    *)
(* SpecLay: a schema is filled field by field, as CreateTable's callers    *)
(* do, and NewLayout is applied to it.  unsafe.Sizeof(int(0)) is the size  *)
(* of int of the build: 4 bytes on a 32-bit platform, 8 on a 64-bit one.   *)
(***************************************************************************)
INTEGER == 1
VARCHAR == 2

FieldNames == {"a", "b", "c"}
\* a VARCHAR field of SpecLay has a length of 1..MaxVarchar
MaxVarchar == 3
IntSizes == {4, 8}

NewSchema == [fields |-> <<>>, info |-> EmptyMap]

\* Schema.AddField
AddField(schema, fieldName, dataType, length) ==
    [fields |-> Append(schema.fields, fieldName),
     info |-> MapPut(schema.info, fieldName, [dataType |-> dataType, length |-> length])]

\* no layout built yet
NoLayout == [offsets |-> EmptyMap, slotSize |-> 0]

\* lengthInBytes, for a build whose int has intSize bytes
lengthInBytes(schema, fieldname, intSize) ==
    IF schema.info[fieldname].dataType = INTEGER THEN intSize
    ELSE MaxLength(schema.info[fieldname].length)

\* the loop of NewLayout over the first j fields: the offsets set and pos
RECURSIVE LayoutLoop(_, _, _)
LayoutLoop(schema, j, intSize) ==
    IF j = 0 THEN [offsets |-> EmptyMap, slotSize |-> intSize]
    ELSE LET l == LayoutLoop(schema, j - 1, intSize)
             f == schema.fields[j]
         IN  [offsets |-> MapPut(l.offsets, f, l.slotSize),
              slotSize |-> l.slotSize + lengthInBytes(schema, f, intSize)]

\* NewLayout
NewLayout(schema, intSize) == LayoutLoop(schema, Len(schema.fields), intSize)

\* Schema.AddIntField
L_AddIntField(f) ==
    /\ lay.layout = NoLayout
    /\ f \notin DOMAIN lay.schema.info
    /\ lay' = [lay EXCEPT !.schema = AddField(@, f, INTEGER, 0)]
    /\ UNCHANGED <<locks, last, cmVars, stVars, wr, txVars, db, bt, ts>>

\* Schema.AddStringField
L_AddStringField(f, n) ==
    /\ lay.layout = NoLayout
    /\ f \notin DOMAIN lay.schema.info
    /\ lay' = [lay EXCEPT !.schema = AddField(@, f, VARCHAR, n)]
    /\ UNCHANGED <<locks, last, cmVars, stVars, wr, txVars, db, bt, ts>>

\* NewLayout(schema), in a build whose int has intSize bytes
L_NewLayout(intSize) ==
    /\ lay.layout = NoLayout
    /\ lay' = [lay EXCEPT !.layout = NewLayout(lay.schema, intSize)]
    /\ UNCHANGED <<locks, last, cmVars, stVars, wr, txVars, db, bt, ts>>

NextLay ==
    \/ \E f \in FieldNames : L_AddIntField(f)
    \/ \E f \in FieldNames, n \in 1..MaxVarchar : L_AddStringField(f, n)
    \/ \E intSize \in IntSizes : L_NewLayout(intSize)

\* the bytes the first j fields of a schema take when an INT takes 4 bytes
\* and a VARCHAR(n) 4 + n
RECURSIVE FieldBytes(_, _)
FieldBytes(schema, j) ==
    IF j = 0 THEN 0
    ELSE FieldBytes(schema, j - 1)
           + (IF schema.info[schema.fields[j]].dataType = INTEGER THEN 4
              ELSE 4 + schema.info[schema.fields[j]].length)

\* C29: the slot size NewLayout computes is 4 bytes for the flag plus the
\* bytes of the fields, an INT taking 4 bytes and a VARCHAR(n) 4 + n, and the
\* offset of a field is 4 plus the bytes of the fields before it.
C29_SlotSizeAndOffsets ==
    [][\A intSize \in IntSizes : L_NewLayout(intSize) =>
          LET schema == lay.schema
              n == Len(schema.fields)
          IN  /\ lay'.layout.slotSize = 4 + FieldBytes(schema, n)
              /\ \A j \in 1..n :
                    lay'.layout.offsets[schema.fields[j]] = 4 + FieldBytes(schema, j - 1)
      ]_vars

(***************************************************************************)
(* BTreeIndex (internal/app/index/btree) under its clients (SpecBT), the   *)
(* tests of internal/app/test/btree_test.go: a client takes a transaction  *)
(* made by NewTransaction, builds the index with NewBTreeIndex, inserts    *)
(* entries, may delete one and scans a key.  bt is the client's record:    *)
(* what it set out to do, the number of index calls that have returned     *)
(* (NewBTreeIndex included) and the RIDs its scan has yielded.  The first  *)
(* statement of NewBTreeIndex is tx.Size on the leaf file.                 *)
(***************************************************************************)
\* keys and RIDs of the index entries of SpecBT
NumKeys == 2
NumRids == 2
\* a client of the index inserts at most this many entries
MaxInserts == 3

Keys == 1..NumKeys
Rids == 1..NumRids

Pairs == [key : Keys, rid : Rids]
NoPair == [key |-> 0, rid |-> 0]
InsertSeqs == UNION {[1..n -> Pairs] : n \in 1..MaxInserts}

\* dir and leaf are the two files of the index as the client leaves them,
\* each a sequence of pages [flag, recs] (block 0 of the code is page 1);
\* closed says that the client's idx.Close() has returned
NoClient ==
    [ins |-> <<>>, del |-> NoPair, key |-> 0, done |-> 0, yielded |-> <<>>,
     dir |-> <<>>, leaf |-> <<>>, closed |-> FALSE]

\* NewBTreeIndex: tx.Size(idx.leaftbl) comes before anything else
NewBTreeIndexOutcome(x) == CMLockOutcome(x, EndOfFile, "S")

\* a client on transaction t: NewBTreeIndex, idx.Insert of each pair of ins,
\* idx.Delete of del (unless NoPair), idx.BeforeFirst(key) and idx.Next until it
\* returns false.  NewBTreeIndex panics in tx.Size; the client's deferred
\* txn.Commit() and os.RemoveAll(dbDir) run, and the process ends: no call of
\* the index returns, no block of its files is written, and no later statement
\* of the client is reached
BT_Client(t, ins, del, key) ==
    /\ Callable(t)
    /\ txs[t].st = "active"
    /\ NewBTreeIndexOutcome(txs[t]) = "panic"
    /\ Down(t, "NewBTreeIndex", EndOfFile)
    /\ bt' = [NoClient EXCEPT !.ins = ins, !.del = del, !.key = key]
    /\ db' = NoDirectory
    /\ logFile' = <<>>
    /\ disk' = [b \in PoolBlocks |-> 0]
    /\ UNCHANGED <<locks, cmVars, wal, wr, lay, ts>>

NextBT ==
    \/ NewTx
    \/ \E t \in Txs, ins \in InsertSeqs, del \in Pairs \cup {NoPair}, key \in Keys :
          BT_Client(t, ins, del, key)
    \/ Restart

\* the RIDs of a sequence of RIDs, and those inserted under a key
RidsOf(seq) == {seq[j] : j \in 1..Len(seq)}
InsertedUnder(ins, key) == {ins[j].rid : j \in {i \in 1..Len(ins) : ins[i].key = key}}

\* C25: after a client has inserted its pairs, whatever splits of leaf and
\* directory pages that took, a scan of a key finds every RID inserted under
\* that key.
C25_InsertedPairsFound ==
    [][\A t \in Txs, ins \in InsertSeqs, key \in Keys :
          BT_Client(t, ins, NoPair, key) =>
             /\ bt'.done = 1 + Len(ins) + 1
             /\ InsertedUnder(ins, key) \subseteq RidsOf(bt'.yielded)
      ]_vars

\* C26: after N inserts of one key with N different RIDs, the scan of the key
\* yields N entries, each RID once.
C26_DuplicatesAllYielded ==
    [][\A t \in Txs, ins \in InsertSeqs, key \in Keys :
          (/\ BT_Client(t, ins, NoPair, key)
           /\ \A j \in 1..Len(ins) : ins[j].key = key
           /\ Cardinality(InsertedUnder(ins, key)) = Len(ins)) =>
             /\ Len(bt'.yielded) = Len(ins)
             /\ RidsOf(bt'.yielded) = InsertedUnder(ins, key)
      ]_vars

\* C27: Delete of an inserted pair removes that entry and no other: the scan
\* of a key after it yields the RIDs inserted under the key, without the
\* deleted one when it was under that key.
C27_DeleteRemovesOnlyItsEntry ==
    [][\A t \in Txs, ins \in InsertSeqs, del \in Pairs, key \in Keys :
          (/\ BT_Client(t, ins, del, key)
           /\ del \in RidsOf(ins)
           /\ \A i, j \in 1..Len(ins) : ins[i] = ins[j] => i = j) =>
             /\ bt'.done = 1 + Len(ins) + 1 + 1
             /\ RidsOf(bt'.yielded) =
                   InsertedUnder(ins, key) \ (IF del.key = key THEN {del.rid} ELSE {})
      ]_vars

\* the entries of a page are in non-decreasing order of their keys
SortedPage(page) ==
    \A i, j \in 1..Len(page.recs) : i <= j => page.recs[i].dataval <= page.recs[j].dataval

\* C36: after a client's inserts the root of the directory is block 0 of the
\* directory file: no page of the directory has a level (flag) above that of
\* block 0, and once the root has been split (the file has more than one
\* block) block 0 has at least the two entries the split left in it and a
\* level above 0, every leaf being that many levels below it.
C36_RootStaysAtBlockZero ==
    [][\A t \in Txs, ins \in InsertSeqs, key \in Keys :
          BT_Client(t, ins, NoPair, key) =>
             /\ proc' = "up"
             /\ Len(bt'.dir) >= 1
             /\ \A j \in 2..Len(bt'.dir) : bt'.dir[j].flag < bt'.dir[1].flag
             /\ Len(bt'.dir) > 1 =>
                   (bt'.dir[1].flag >= 1 /\ Len(bt'.dir[1].recs) >= 2)
             /\ Len(bt'.dir) = 1 =>
                   (bt'.dir[1].flag = 0 /\ Len(bt'.dir[1].recs) >= 1)
      ]_vars

\* C37: after a client's inserts and its delete the entries of every page of
\* the leaf file and of the directory file are in non-decreasing key order,
\* and the entries of an overflow block (the block a leaf page's flag names)
\* have the key of the first entry of the page that points to it.
C37_PagesSortedOverflowOneKey ==
    [][\A t \in Txs, ins \in InsertSeqs, del \in Pairs \cup {NoPair}, key \in Keys :
          BT_Client(t, ins, del, key) =>
             /\ bt'.done >= 1 + Len(ins)
             /\ Len(bt'.leaf) >= 1
             /\ \A j \in 1..Len(bt'.leaf) : SortedPage(bt'.leaf[j])
             /\ \A j \in 1..Len(bt'.dir) : SortedPage(bt'.dir[j])
             /\ \A j \in 1..Len(bt'.leaf) :
                   bt'.leaf[j].flag >= 0 =>
                      LET over == bt'.leaf[bt'.leaf[j].flag + 1]
                      IN  \A i \in 1..Len(over.recs) :
                             over.recs[i].dataval = bt'.leaf[j].recs[1].dataval
      ]_vars

\* C38: the index releases every buffer it pins: when the client has built
\* the index, made its calls and closed the index, the transaction has no
\* block pinned and the buffer manager has as many available buffers as
\* before the index was built.
C38_IndexReleasesItsPins ==
    [][\A t \in Txs, ins \in InsertSeqs, del \in Pairs \cup {NoPair}, key \in Keys :
          BT_Client(t, ins, del, key) =>
             /\ bt'.closed
             /\ txs'[t].pins = txs[t].pins
             /\ txs'[t].buffers = txs[t].buffers
             /\ numAvailable' = numAvailable
      ]_vars

(***************************************************************************)
(* Table scans (SpecTS): internal/app/record/tableScan.go, which holds     *)
(* RecordPage as well.  The table file is a sequence of blocks (block 0 of *)
(* the code is the first), a block the sequence of the flags of its slots  *)
(* (slot 0 is the first).  The scan's calls on its transaction (Size,      *)
(* Append, Pin, Unpin, GetInt, SetInt) are modelled by what they do to the *)
(* table file for a transaction whose lock requests are granted; with the  *)
(* transaction NewTransaction builds, the first of them ends the process   *)
(* (TxSize of Spec).                                                       *)
(***************************************************************************)
EMPTY == 0
USED == 1

\* a block as tx.Append leaves it: zeroes, so that every slot reads EMPTY
NewTableBlock == [i \in 1..(BlockSize \div ScanSlotSize) |-> EMPTY]

NoRID == <<-1, -1>>

\* st is "none" before NewTableScan, "open" while the scan can be called and
\* "panic" once a call has panicked; rp is the number of the block of the
\* scan's record page, pinned the block the scan keeps pinned (-1: none),
\* op, ret and rid the last call, what Next returned and what MoveToRID was
\* given
NoScan ==
    [st |-> "none", file |-> <<>>, rp |-> -1, currentSlot |-> -1, pinned |-> -1,
     op |-> "none", ret |-> FALSE, rid |-> NoRID]

\* RecordPage.offset
offset(slot) == slot * ScanSlotSize

\* RecordPage.isValidSlot
isValidSlot(slot) == offset(slot + 1) <= BlockSize

\* tx.GetInt(block, offset(slot)): the flag of a slot
SlotFlag(file, blk, slot) == file[blk + 1][slot + 1]

\* the loop of RecordPage.searchAfter from a slot on
RECURSIVE searchFrom(_, _, _, _)
searchFrom(file, blk, slot, flag) ==
    IF ~isValidSlot(slot) THEN -1
    ELSE IF SlotFlag(file, blk, slot) = flag THEN slot
    ELSE searchFrom(file, blk, slot + 1, flag)

\* RecordPage.searchAfter
searchAfter(file, blk, slot, flag) == searchFrom(file, blk, slot + 1, flag)

\* RecordPage.nextAfter
nextAfter(file, blk, slot) == searchAfter(file, blk, slot, USED)

\* RecordPage.setFlag
setFlag(file, blk, slot, flag) == [file EXCEPT ![blk + 1][slot + 1] = flag]

\* TableScan.atLastBlock
atLastBlock(file, blk) == blk = Len(file) - 1

\* TableScan.moveToBlock: Close unpins the block of the record page,
\* NewRecordPage pins the new one
scanMoveToBlock(s, blockNum) ==
    [s EXCEPT !.rp = blockNum, !.pinned = blockNum, !.currentSlot = -1]

\* TableScan.moveToNewBlock
scanMoveToNewBlock(s) ==
    [s EXCEPT !.file = Append(s.file, NewTableBlock), !.rp = Len(s.file),
              !.pinned = Len(s.file), !.currentSlot = -1]

\* TableScan.GetRID
GetRID(s) == <<s.rp, s.currentSlot>>

\* the record ids of the slots of a table file
ValidRIDs(file) ==
    {r \in (0..(Len(file) - 1)) \X (0..((BlockSize \div ScanSlotSize) - 1)) : TRUE}

\* the loop of TableScan.Insert once insertAfter has found no slot in the
\* block of the record page
RECURSIVE InsertLoop(_)
InsertLoop(s) ==
    LET moved == IF atLastBlock(s.file, s.rp) THEN scanMoveToNewBlock(s)
                 ELSE scanMoveToBlock(s, s.rp + 1)
        slot == searchAfter(moved.file, moved.rp, moved.currentSlot, EMPTY)
    IN  IF slot >= 0
        THEN [moved EXCEPT !.file = setFlag(moved.file, moved.rp, slot, USED),
                           !.currentSlot = slot]
        ELSE InsertLoop(moved)

\* TableScan.Insert
Insert(s) ==
    LET slot == searchAfter(s.file, s.rp, s.currentSlot, EMPTY)
    IN  IF slot >= 0
        THEN [s EXCEPT !.file = setFlag(s.file, s.rp, slot, USED), !.currentSlot = slot]
        ELSE InsertLoop(s)

ScanUnchanged ==
    UNCHANGED <<locks, last, cmVars, stVars, wr, txVars, db, lay, bt>>

\* NewTableScan(tx, tableName, layout) on the table file as it is
TS_NewTableScan ==
    /\ ts.st # "open"
    /\ ts' = [(IF Len(ts.file) = 0 THEN scanMoveToNewBlock(ts) ELSE scanMoveToBlock(ts, 0))
                EXCEPT !.st = "open", !.op = "NewTableScan", !.ret = FALSE, !.rid = NoRID]
    /\ ScanUnchanged

\* ts.BeforeFirst()
TS_BeforeFirst ==
    /\ ts.st = "open"
    /\ ts' = [scanMoveToBlock(ts, 0) EXCEPT !.op = "BeforeFirst", !.ret = FALSE, !.rid = NoRID]
    /\ ScanUnchanged

\* ts.Next()
TS_Next ==
    /\ ts.st = "open"
    /\ LET slot == nextAfter(ts.file, ts.rp, ts.currentSlot)
           s == [ts EXCEPT !.currentSlot = slot, !.op = "Next", !.rid = NoRID]
       IN  ts' = IF slot < 0
                 THEN IF atLastBlock(s.file, s.rp)
                      THEN [s EXCEPT !.ret = FALSE]
                      ELSE [scanMoveToBlock(s, s.rp + 1) EXCEPT !.ret = TRUE]
                 ELSE [s EXCEPT !.ret = TRUE]
    /\ ScanUnchanged

\* ts.Insert()
TS_Insert ==
    /\ ts.st = "open"
    /\ Len(Insert(ts).file) <= MaxTableBlocks
    /\ ts' = [Insert(ts) EXCEPT !.op = "Insert", !.ret = TRUE, !.rid = NoRID]
    /\ ScanUnchanged

\* ts.Delete(): setFlag writes at offset(currentSlot), which lies before the
\* page when the scan is on no slot (Page.SetInt slices the page there and
\* panics)
TS_Delete ==
    /\ ts.st = "open"
    /\ ts' = IF ts.currentSlot < 0
             THEN [ts EXCEPT !.st = "panic", !.op = "Delete", !.ret = FALSE, !.rid = NoRID]
             ELSE [ts EXCEPT !.file = setFlag(ts.file, ts.rp, ts.currentSlot, EMPTY),
                             !.op = "Delete", !.ret = FALSE, !.rid = NoRID]
    /\ ScanUnchanged

\* ts.MoveToRID(rid): the block and the slot are taken from ts.GetRID(), the
\* argument is not read
TS_MoveToRID(rid) ==
    /\ ts.st = "open"
    /\ rid \in ValidRIDs(ts.file)
    /\ ts' = [ts EXCEPT !.rp = GetRID(ts)[1], !.pinned = GetRID(ts)[1],
                        !.currentSlot = GetRID(ts)[2],
                        !.op = "MoveToRID", !.ret = FALSE, !.rid = rid]
    /\ ScanUnchanged

NextTS ==
    \/ TS_NewTableScan
    \/ TS_BeforeFirst
    \/ TS_Next
    \/ TS_Insert
    \/ TS_Delete
    \/ \E rid \in (0..(MaxTableBlocks - 1)) \X (0..((BlockSize \div ScanSlotSize) - 1)) :
          TS_MoveToRID(rid)

\* the USED slots of a table file that come after a position, in the order
\* of blocks and, within a block, of slots
UsedAfter(file, blk, slot) ==
    {r \in ValidRIDs(file) :
        /\ SlotFlag(file, r[1], r[2]) = USED
        /\ (r[1] > blk \/ (r[1] = blk /\ r[2] > slot))}

\* the first position of a non-empty set of positions
FirstRID(rs) ==
    CHOOSE r \in rs : \A q \in rs : r[1] < q[1] \/ (r[1] = q[1] /\ r[2] <= q[2])

\* C39: a scan visits the USED slots of its table in the order of blocks and
\* slots, each once: a call of Next() returns true exactly when a USED slot
\* comes after the scan's position, and then leaves the scan on the first
\* such slot (blocks without a USED slot are passed over); it returns false
\* only when no USED slot is left up to the end of the last block.
C39_NextVisitsUsedSlotsInOrder ==
    [][TS_Next =>
          IF UsedAfter(ts.file, ts.rp, ts.currentSlot) = {}
          THEN ts'.ret = FALSE
          ELSE /\ ts'.ret = TRUE
               /\ GetRID(ts') = FirstRID(UsedAfter(ts.file, ts.rp, ts.currentSlot))
               /\ SlotFlag(ts'.file, ts'.rp, ts'.currentSlot) = USED
      ]_vars

\* C40: after MoveToRID(rid) for the record id of a slot of the table,
\* GetRID() is rid, wherever the scan stood before.
C40_MoveToRIDThenGetRID ==
    [][\A rid \in (0..(MaxTableBlocks - 1)) \X (0..((BlockSize \div ScanSlotSize) - 1)) :
          TS_MoveToRID(rid) => GetRID(ts') = rid
      ]_vars

InitTx ==
    /\ txs = [t \in Txs |-> NoTransaction]
    /\ nextTxNum = 0
    /\ proc = "up"

InitCM ==
    /\ cmLocks = [c \in CMs |-> EmptyMap]
    /\ cmPc = [c \in CMs |-> "idle"]
    /\ cmArg = [c \in CMs |-> 0]
    /\ cmRel = [c \in CMs |-> {}]

\* the directory has been made by the NewCentauriDBWithConfig that built the
\* managers of Init
InitDB == db = NewFileManager(MkdirAll(NoDirectory))

InitLT ==
    /\ locks = EmptyMap
    /\ last = NoCall
    /\ InitCM
    /\ InitStore
    /\ InitTx
    /\ InitDB
    /\ lay = [schema |-> NewSchema, layout |-> NoLayout]
    /\ bt = NoClient
    /\ ts = NoScan

NextLT ==
    \/ \E b \in Blocks : LT_SLock(b)
    \/ \E b \in Blocks : LT_XLock(b)
    \/ \E b \in Blocks : LT_Unlock(b)

SpecLT == InitLT /\ [][NextLT]_vars

NextCM ==
    \/ \E c \in CMs, b \in Blocks : CM_SLock(c, b)
    \/ \E c \in CMs, b \in Blocks : CM_XLock(c, b)
    \/ \E c \in CMs : CM_XLockUpgrade(c)
    \/ \E c \in CMs : CM_Release(c)
    \/ \E c \in CMs : CM_ReleaseUnlock(c)
    \/ \E c \in CMs : CM_ReleaseEnd(c)

SpecCM == InitLT /\ [][NextCM]_vars

NextPT ==
    \/ \E c \in CMs, b \in Blocks : PT_SLock(c, b)
    \/ \E c \in CMs, b \in Blocks : PT_XLock(c, b)
    \/ \E c \in CMs : PT_Release(c)

SpecPT == InitLT /\ [][NextPT]_vars

NextBuf ==
    \/ \E t \in Txs : W_Begin(t)
    \/ \E t \in Txs, b \in Blocks : W_Pin(t, b)
    \/ \E t \in Txs, i \in Buffers : W_Unpin(t, i)
    \/ \E t \in Txs, i \in Buffers, v \in 1..MaxVal, okToLog \in BOOLEAN :
          W_SetIntLog(t, i, v, okToLog)
    \/ \E t \in Txs : W_SetIntPage(t)
    \/ \E t \in Txs : W_SetIntMark(t)
    \/ \E t \in Txs : W_CommitFlushAll(t)
    \/ \E t \in Txs : W_CommitAppend(t)
    \/ \E t \in Txs : W_CommitFlushLog(t)
    \/ \E t \in Txs : W_CommitEnd(t)

SpecBuf == InitLT /\ [][NextBuf]_vars

NextBM ==
    \/ \E t \in Txs, b \in PoolBlocks : P_Pin(t, b)
    \/ \E t \in Txs : P_PinRetry(t)
    \/ \E t \in Txs : P_PinAbort(t)
    \/ \E t \in Txs, i \in Buffers : P_Unpin(t, i)

SpecBM == InitLT /\ [][NextBM]_vars

SpecLog == InitLT /\ [][NextLog]_vars

SpecLay == InitLT /\ [][NextLay]_vars

SpecBT == InitLT /\ [][NextBT]_vars

SpecTS == InitLT /\ [][NextTS]_vars

Next ==
    \/ NewTx
    \/ \E t \in Txs, b \in Blocks : TxPin(t, b)
    \/ \E t \in Txs, b \in Blocks : TxUnpin(t, b)
    \/ \E t \in Txs, b \in Blocks : TxGetInt(t, b)
    \/ \E t \in Txs, b \in Blocks, v \in 1..MaxVal, okToLog \in BOOLEAN :
          TxSetInt(t, b, v, okToLog)
    \/ \E t \in Txs : TxSize(t)
    \/ \E t \in Txs : TxAppend(t)
    \/ \E t \in Txs : TxCommit(t)
    \/ \E t \in Txs : TxRollback(t)
    \/ \E t \in Txs : TxRecover(t)
    \/ Crash
    \/ Restart
    \/ RemoveDir
    \/ NewCentauriDB

Spec == InitLT /\ [][Next]_vars

=============================================================================
